---------------------------- MODULE Spec2Model ----------------------------
(***************************************************************************)
(* A model of the schema-driven EDI parser (src/src/edi_parser.py), its    *)
(* canonical data model (src/src/cdm.py) and the TA1 envelope validator    *)
(* (src/src/ta1_validator.py).                                             *)
(*                                                                         *)
(* Strings are sequences of one-character tokens, so that len(), strip(),  *)
(* isdigit() and split() are computed.  The tokens "LF" and "CR" stand for *)
(* the line feed and the carriage return, "sup2" for the character         *)
(* SUPERSCRIPT TWO (a digit for str.isdigit(), not a literal for int()).   *)
(* An Optional[str] is a record [some, v]; an exception is a result record *)
(* whose field raised is TRUE.                                             *)
(***************************************************************************)
EXTENDS Integers, Sequences, FiniteSets, TLC

VARIABLES
    schema_id,      \* which schema the EdiParser was constructed with
    delims,         \* EdiParser.element_delimiter, segment_terminator, component_separator
    all_segments,   \* EdiParser.all_segments: the CdmSegment objects (with their errors lists)
    self_errors,    \* EdiParser.errors
    interchange,    \* the CdmInterchange the last parse() returned (segments by reference)
    outcome,        \* "none" | "returned" | "raised": how the last parse() ended
    calls,          \* number of parse() calls made on this EdiParser
    first_view,     \* the first returned interchange, as observed when it was returned
    frame,          \* locals of a running _build_tree invocation
    ret,            \* what that _build_tree invocation returned
    env_in,         \* arguments of validate_interchange_envelope
    env_out,        \* its result
    gen_in,         \* arguments of TA1Generator.generate and the clock it reads
    gen_out,        \* its result
    edi_string,     \* the text EdiParser is constructed on (None: given decoded)
    variant,        \* a second EdiParser, constructed on the input with one element changed
    manager,        \* a SchemaManager, the schema files it reads and what it returned last
    validator       \* a SegmentValidator call on its own: its arguments and its result

vars == <<schema_id, delims, all_segments, self_errors, interchange, outcome, calls,
          first_view, frame, ret, env_in, env_out, gen_in, gen_out, edi_string, variant,
          manager, validator>>

-----------------------------------------------------------------------------
(* Bounds of the model *)

MaxWindow == 3
MaxBody == 3
MaxParses == 2

-----------------------------------------------------------------------------
(* Python values *)

NoneInt == -1
NoneStr == "None"
Some(v) == [some |-> TRUE, v |-> v]
NoneVal == [some |-> FALSE, v |-> <<>>]

DecimalChars == {"0", "1", "2", "3", "4", "5", "6", "7", "8", "9"}
\* str.isdigit() also accepts digits that int() does not parse
DigitChars == DecimalChars \cup {"sup2"}
LetterChars == {"A", "B", "D", "E", "H", "P", "R", "S", "T", "X", "Z"}
WhiteChars == {" ", "LF", "CR"}

IsAlnumChar(c) == c \in DigitChars \cup LetterChars

DigitVal(c) ==
    CASE c = "0" -> 0 [] c = "1" -> 1 [] c = "2" -> 2 [] c = "3" -> 3 [] c = "4" -> 4
      [] c = "5" -> 5 [] c = "6" -> 6 [] c = "7" -> 7 [] c = "8" -> 8 [] c = "9" -> 9

\* str.isdigit(): non-empty and every character a digit
IsDigitStr(s) == Len(s) > 0 /\ \A i \in 1..Len(s) : s[i] \in DigitChars

\* str.strip()
RECURSIVE LStrip(_)
LStrip(s) == IF Len(s) > 0 /\ s[1] \in WhiteChars THEN LStrip(Tail(s)) ELSE s
RECURSIVE RStrip(_)
RStrip(s) ==
    IF Len(s) > 0 /\ s[Len(s)] \in WhiteChars THEN RStrip(SubSeq(s, 1, Len(s) - 1)) ELSE s
Strip(s) == RStrip(LStrip(s))

\* int(s) for a string of digits: raises ValueError unless every character is decimal
IntRaises(s) == Len(s) = 0 \/ \E i \in 1..Len(s) : s[i] \notin DecimalChars
RECURSIVE IntOf(_)
IntOf(s) == IF Len(s) = 0 THEN 0 ELSE 10 * IntOf(SubSeq(s, 1, Len(s) - 1)) + DigitVal(s[Len(s)])

\* str.split(sep) for a one-character sep: the stretches between consecutive
\* occurrences of sep, the start and the end of the string
Split(s, sep) ==
    LET cuts == {0, Len(s) + 1} \cup {i \in 1..Len(s) : s[i] = sep}
        nth(k) == CHOOSE j \in cuts : Cardinality({m \in cuts : m < j}) = k - 1
    IN  [k \in 1..(Cardinality(cuts) - 1) |-> SubSeq(s, nth(k) + 1, nth(k + 1) - 1)]

SeqRange(s) == {s[i] : i \in 1..Len(s)}

\* The parts joined with sep between them
RECURSIVE Join(_, _)
Join(parts, sep) ==
    IF Len(parts) = 0 THEN <<>>
    ELSE IF Len(parts) = 1 THEN parts[1]
    ELSE parts[1] \o <<sep>> \o Join(Tail(parts), sep)

RECURSIVE Count(_, _)
Count(s, x) == IF Len(s) = 0 THEN 0 ELSE (IF s[1] = x THEN 1 ELSE 0) + Count(Tail(s), x)

-----------------------------------------------------------------------------
(* cdm.py: findings and segments *)

\* The text of a finding's message: its template (kind) and what is formatted into it.
Msg(kind, xid, name, loop, n, codes, el, val) ==
    [kind |-> kind, xid |-> xid, name |-> name, loop |-> loop, n |-> n,
     codes |-> codes, el |-> el, val |-> val]

CdmValidationError(message, line_number, segment_id, element_xid, is_identifier_error) ==
    [message |-> message, line_number |-> line_number, segment_id |-> segment_id,
     element_xid |-> element_xid, is_identifier_error |-> is_identifier_error]

\* CdmValidationError(message=...) with every other field at its default
PlainError(message) == CdmValidationError(message, NoneInt, NoneStr, NoneStr, FALSE)

\* CdmValidationError(message=..., element_xid=full_xid, is_identifier_error=is_identifier)
ElementError(message, full_xid, is_identifier) ==
    CdmValidationError(message, NoneInt, NoneStr, full_xid, is_identifier)

CdmSegment(segment_id, elements, line_number) ==
    [segment_id |-> segment_id, elements |-> elements, line_number |-> line_number,
     errors |-> <<>>]

\* CdmSegment.get_element: the value at a 1-based position, None outside 1..len
get_element(segment, position) ==
    IF 1 <= position /\ position <= Len(segment.elements)
    THEN Some(segment.elements[position]) ELSE NoneVal

\* `x or ""` for an Optional[str]
OrEmpty(opt) == IF opt.some THEN opt.v ELSE <<>>

-----------------------------------------------------------------------------
(* edi_parser.py: validation helpers *)

\* float(value) succeeds; the element values of the model carry no sign, point or exponent
FloatParses(value) ==
    LET t == Strip(value) IN Len(t) > 0 /\ \A i \in 1..Len(t) : t[i] \in DecimalChars

_validate_data_type(value, data_type) ==
    IF data_type = "Composite" THEN TRUE
    ELSE IF data_type \in {"AN", "ID"} THEN TRUE
    ELSE IF data_type \in {"N0", "N1", "N2", "R"}
         THEN (IF Len(value) = 0 THEN TRUE ELSE FloatParses(value))
    ELSE IF data_type \in {"DT", "TM"} THEN TRUE
    ELSE FALSE

IsLeap(y) == (y % 4 = 0 /\ y % 100 # 0) \/ y % 400 = 0
DaysIn(m, y) ==
    IF m = 2 THEN (IF IsLeap(y) THEN 29 ELSE 28)
    ELSE IF m \in {4, 6, 9, 11} THEN 30 ELSE 31

\* datetime.strptime(value, '%Y%m%d') succeeds, for a value of eight isdigit() characters
StrptimeCCYYMMDD(value) ==
    /\ \A i \in 1..8 : value[i] \in DecimalChars
    /\ LET y == IntOf(SubSeq(value, 1, 4))
           m == IntOf(SubSeq(value, 5, 6))
           d == IntOf(SubSeq(value, 7, 8))
       IN  y >= 1 /\ m >= 1 /\ m <= 12 /\ d >= 1 /\ d <= DaysIn(m, y)

\* [raised, ok]: int() of a digit that is no decimal raises ValueError out of the function
_validate_format(value, data_format) ==
    IF Len(value) = 0 THEN [raised |-> FALSE, ok |-> TRUE]
    ELSE IF data_format = "CCYYMMDD" THEN
        [raised |-> FALSE,
         ok |-> Len(value) = 8 /\ IsDigitStr(value) /\ StrptimeCCYYMMDD(value)]
    ELSE IF data_format = "HHMM" THEN
        IF ~(Len(value) = 4 /\ IsDigitStr(value)) THEN [raised |-> FALSE, ok |-> FALSE]
        ELSE IF IntRaises(SubSeq(value, 1, 2)) THEN [raised |-> TRUE, ok |-> FALSE]
        ELSE IF ~(IntOf(SubSeq(value, 1, 2)) <= 23) THEN [raised |-> FALSE, ok |-> FALSE]
        ELSE IF IntRaises(SubSeq(value, 3, 4)) THEN [raised |-> TRUE, ok |-> FALSE]
        ELSE [raised |-> FALSE, ok |-> IntOf(SubSeq(value, 3, 4)) <= 59]
    ELSE [raised |-> FALSE, ok |-> TRUE]

\* One element of a definition; None is NoneInt/NoneStr, no valid_codes or sub_elements is <<>>.
BaseElement(xid, usage, seq, dataType, minLength, maxLength, format, valid_codes, sub_elements, is_identifier) ==
    [xid |-> xid, usage |-> usage, seq |-> seq, dataType |-> dataType,
     minLength |-> minLength, maxLength |-> maxLength, format |-> format,
     valid_codes |-> valid_codes, sub_elements |-> sub_elements,
     is_identifier |-> is_identifier]

\* `value is None` for the value of the field `key` of an element.  A key that is absent
\* and a key whose value is None read the same through dict.get, and are one value here;
\* valid_codes, sub_elements and is_identifier have no None in the model.
IsNone(key, value) ==
    CASE key \in {"seq", "minLength", "maxLength"} -> value = NoneInt
      [] key \in {"xid", "usage", "dataType", "format"} -> value = NoneStr
      [] OTHER -> FALSE

\* for key, value in overrides.items(): if value is not None: element[key] = value
ApplyOverride(base_el, overrides) ==
    [k \in DOMAIN base_el |->
        IF k \in DOMAIN overrides /\ ~IsNone(k, overrides[k]) THEN overrides[k]
        ELSE base_el[k]]

\* dict.update: every key of the override is assigned, None or not
DictUpdate(base_sub_el, overrides) ==
    [k \in DOMAIN base_sub_el |-> IF k \in DOMAIN overrides THEN overrides[k] ELSE base_sub_el[k]]

\* The sub_elements branch: each base sub-element whose xid the override names is updated
MergeSubElements(base_subs, override_subs) ==
    [j \in 1..Len(base_subs) |->
        IF base_subs[j].xid \in DOMAIN override_subs
        THEN DictUpdate(base_subs[j], override_subs[base_subs[j].xid])
        ELSE base_subs[j]]

MergeElement(base_el, overrides) ==
    LET subs_done ==
            IF "sub_elements" \in DOMAIN overrides /\ Len(base_el.sub_elements) > 0
            THEN [base_el EXCEPT !.sub_elements =
                      MergeSubElements(base_el.sub_elements, overrides.sub_elements)]
            ELSE base_el
        rest == IF "sub_elements" \in DOMAIN overrides /\ Len(base_el.sub_elements) > 0
                THEN [k \in (DOMAIN overrides) \ {"sub_elements"} |-> overrides[k]]
                ELSE overrides
    IN  ApplyOverride(subs_done, rest)

\* context_def is NoneVal-like: [some |-> FALSE] when there is no contextual definition
_get_effective_definition(base_def, context_def) ==
    IF ~context_def.some THEN base_def
    ELSE LET context_elements == context_def.v.elements IN
         [base_def EXCEPT !.elements =
            [i \in 1..Len(base_def.elements) |->
                IF base_def.elements[i].xid \in DOMAIN context_elements
                THEN MergeElement(base_def.elements[i],
                                  context_elements[base_def.elements[i].xid])
                ELSE base_def.elements[i]]]

-----------------------------------------------------------------------------
(* edi_parser.py: SegmentValidator.  Every result is [raised, errors];        *)
(* component_separator is the validator's self.component_separator.          *)

NoRaise(errors) == [raised |-> FALSE, errors |-> errors]
Raised(errors) == [raised |-> TRUE, errors |-> errors]

\* F applied to the value of e, e being evaluated once
Bind(F(_), e) == CHOOSE r \in {F(x) : x \in {e}} : TRUE

\* errors.extend(a) followed by errors.extend(b): an exception in a skips b
AndThen(a, b) ==
    Bind(LAMBDA x : IF x.raised THEN x
                    ELSE Bind(LAMBDA y : [raised |-> y.raised, errors |-> x.errors \o y.errors],
                              b),
         a)

ElementMsg(kind, full_xid, n, name, codes) ==
    Msg(kind, full_xid, name, NoneStr, n, codes, <<>>, <<>>)

\* The checks of a present scalar element, in the order of the source
ScalarChecks(element_def, value, full_xid) ==
    LET is_identifier == element_def.is_identifier
        min_len == element_def.minLength
        max_len == element_def.maxLength
        data_type == element_def.dataType
        data_format == element_def.format
        fmt == IF data_format # NoneStr THEN _validate_format(value, data_format)
               ELSE [raised |-> FALSE, ok |-> TRUE]
        e_min == IF min_len # NoneInt /\ Len(value) < min_len
                 THEN <<ElementError(ElementMsg("shorter_than_min_length", full_xid, min_len,
                                                NoneStr, {}), full_xid, is_identifier)>>
                 ELSE <<>>
        e_max == IF max_len # NoneInt /\ Len(value) > max_len
                 THEN <<ElementError(ElementMsg("longer_than_max_length", full_xid, max_len,
                                                NoneStr, {}), full_xid, is_identifier)>>
                 ELSE <<>>
        e_type == IF data_type # NoneStr /\ ~_validate_data_type(value, data_type)
                  THEN <<ElementError(ElementMsg("data_type_mismatch", full_xid, NoneInt,
                                                 data_type, {}), full_xid, is_identifier)>>
                  ELSE <<>>
        e_fmt == IF data_format # NoneStr /\ ~fmt.ok
                 THEN <<ElementError(ElementMsg("format_mismatch", full_xid, NoneInt,
                                                data_format, {}), full_xid, is_identifier)>>
                 ELSE <<>>
        allowed_codes == SeqRange(element_def.valid_codes)
        e_code == IF Len(element_def.valid_codes) > 0 /\ value \notin allowed_codes
                  THEN <<ElementError(ElementMsg("invalid_code_value", full_xid, NoneInt,
                                                 NoneStr, allowed_codes),
                                      full_xid, is_identifier)>>
                  ELSE <<>>
    IN  IF fmt.raised THEN Raised(e_min \o e_max \o e_type)
        ELSE NoRaise(e_min \o e_max \o e_type \o e_fmt \o e_code)

RECURSIVE _validate_element_recursively(_, _, _, _)
RECURSIVE ValidateSubElements(_, _, _, _, _)

\* for sub_def in sub_element_defs: ... errors.extend(recursive call), from index k on
ValidateSubElements(component_separator, sub_element_defs, sub_element_values, full_xid, k) ==
    IF k > Len(sub_element_defs) THEN NoRaise(<<>>)
    ELSE LET sub_def == sub_element_defs[k]
             sub_pos == sub_def.seq
             sub_value == IF sub_pos - 1 < Len(sub_element_values)
                          THEN sub_element_values[sub_pos] ELSE <<>>
             here == IF sub_pos = 0 THEN NoRaise(<<>>)
                     ELSE _validate_element_recursively(component_separator, sub_def,
                                                        sub_value, full_xid)
         IN  AndThen(here, ValidateSubElements(component_separator, sub_element_defs,
                                               sub_element_values, full_xid, k + 1))

_validate_element_recursively(component_separator, element_def, value, parent_xid) ==
    LET xid == element_def.xid
        full_xid == IF parent_xid # NoneStr THEN parent_xid \o "-" \o xid ELSE xid
        usage == element_def.usage
        is_present == value # <<>>
        is_identifier == element_def.is_identifier
        not_used == IF usage = "N" /\ is_present
                    THEN <<ElementError(ElementMsg("not_used", full_xid, NoneInt, NoneStr, {}),
                                        full_xid, is_identifier)>>
                    ELSE <<>>
    IN  IF usage = "R" /\ ~is_present
        THEN NoRaise(<<ElementError(ElementMsg("required_element_missing", full_xid, NoneInt,
                                               NoneStr, {}), full_xid, is_identifier)>>)
        ELSE IF ~is_present THEN NoRaise(not_used)
        ELSE IF element_def.dataType = "Composite"
        THEN AndThen(NoRaise(not_used),
                     Bind(LAMBDA sub_element_values :
                              ValidateSubElements(component_separator, element_def.sub_elements,
                                                  sub_element_values, full_xid, 1),
                          Split(value, component_separator)))
        ELSE AndThen(NoRaise(not_used), ScalarChecks(element_def, value, full_xid))

\* re.sub(r'\D', '', element_id): the decimal digits of an element reference
DigitsOf(element_id) == SelectSeq(element_id, LAMBDA c : c \in DecimalChars)

\* [raised, result]
_evaluate_condition_clause(segment, clause) ==
    LET digits == DigitsOf(clause.element)
        value == OrEmpty(get_element(segment, IntOf(digits)))
        op == clause.operator
    IN  IF IntRaises(digits) THEN [raised |-> TRUE, result |-> FALSE]
        ELSE IF op \in {"IS", "IS_NOT"} /\ ~clause.value.some
             THEN [raised |-> TRUE, result |-> FALSE]
        ELSE [raised |-> FALSE,
              result |-> CASE op = "IS_PRESENT" -> Strip(value) # <<>>
                           [] op = "IS_NOT_PRESENT" -> Strip(value) = <<>>
                           [] op = "IS" -> value = clause.value.v
                           [] op = "IS_NOT" -> value # clause.value.v
                           [] OTHER -> FALSE]

\* all(...) / any(...) over the clauses from index k on: stops at the deciding clause
RECURSIVE EvalClauses(_, _, _, _)
EvalClauses(segment, clauses, k, all_of) ==
    IF k > Len(clauses) THEN [raised |-> FALSE, result |-> all_of]
    ELSE LET c == _evaluate_condition_clause(segment, clauses[k])
         IN  IF c.raised THEN c
             ELSE IF c.result # all_of THEN c
             ELSE EvalClauses(segment, clauses, k + 1, all_of)

_evaluate_conditions(segment, conditions) ==
    IF conditions.kind = "ALL_OF" THEN EvalClauses(segment, conditions.clauses, 1, TRUE)
    ELSE IF conditions.kind = "ANY_OF" THEN EvalClauses(segment, conditions.clauses, 1, FALSE)
    ELSE [raised |-> FALSE, result |-> TRUE]

RuleMsg(rule_id, assertion_type, element_id, value, n) ==
    Msg("syntax_rule_failed", rule_id, assertion_type, NoneStr, n, {}, element_id, value)

_execute_assertion(segment, assertion, rule_id) ==
    LET t == assertion.assertion
        digits == DigitsOf(assertion.element)
        value == OrEmpty(get_element(segment, IntOf(digits)))
    IN  IF t = "MUST_BE_PRESENT" THEN
            IF IntRaises(digits) THEN Raised(<<>>)
            ELSE IF Strip(value) = <<>>
                 THEN NoRaise(<<PlainError(RuleMsg(rule_id, t, assertion.element, value,
                                                   NoneInt))>>)
                 ELSE NoRaise(<<>>)
        ELSE IF t = "MUST_HAVE_LENGTH" THEN
            IF IntRaises(digits) THEN Raised(<<>>)
            ELSE IF Len(value) # assertion.value
                 THEN NoRaise(<<PlainError(RuleMsg(rule_id, t, assertion.element, value,
                                                   assertion.value))>>)
                 ELSE NoRaise(<<>>)
        ELSE IF t = "ANY_OF_MUST_BE_PRESENT" THEN
            IF \E i \in 1..Len(assertion.elements) : IntRaises(DigitsOf(assertion.elements[i]))
            THEN Raised(<<>>)
            ELSE IF ~\E i \in 1..Len(assertion.elements) :
                       OrEmpty(get_element(segment,
                                           IntOf(DigitsOf(assertion.elements[i])))) # <<>>
                 THEN NoRaise(<<PlainError(RuleMsg(rule_id, t, <<>>, <<>>, NoneInt))>>)
                 ELSE NoRaise(<<>>)
        ELSE NoRaise(<<>>)

\* for assertion in rule["then"], from index k on
RECURSIVE ExecAssertions(_, _, _, _)
ExecAssertions(segment, assertions, rule_id, k) ==
    IF k > Len(assertions) THEN NoRaise(<<>>)
    ELSE LET here == _execute_assertion(segment, assertions[k], rule_id)
         IN  AndThen(here, ExecAssertions(segment, assertions, rule_id, k + 1))

\* for rule in rules, from index k on
RECURSIVE _validate_syntax_rules(_, _, _)
_validate_syntax_rules(segment, rules, k) ==
    IF k > Len(rules) THEN NoRaise(<<>>)
    ELSE LET rule == rules[k]
             here == Bind(LAMBDA met :
                              IF met.raised THEN Raised(<<>>)
                              ELSE IF met.result
                                   THEN ExecAssertions(segment, rule.then, rule.ruleId, 1)
                              ELSE NoRaise(<<>>),
                          _evaluate_conditions(segment, rule.conditions))
         IN  AndThen(here, _validate_syntax_rules(segment, rules, k + 1))

\* for element_def in effective_def["elements"], from index k on
RECURSIVE ValidateElements(_, _, _, _)
ValidateElements(component_separator, segment, element_defs, k) ==
    IF k > Len(element_defs) THEN NoRaise(<<>>)
    ELSE LET element_def == element_defs[k]
             el_pos == element_def.seq
             value_in_data == IF 1 <= el_pos /\ el_pos <= Len(segment.elements)
                              THEN segment.elements[el_pos] ELSE <<>>
             here == IF el_pos = 0 THEN NoRaise(<<>>)
                     ELSE _validate_element_recursively(component_separator, element_def,
                                                        value_in_data, NoneStr)
         IN  AndThen(here,
                     ValidateElements(component_separator, segment, element_defs, k + 1))

\* SegmentValidator.validate(segment, context_id); context_id may be NoneStr
validate(schema, component_separator, segment, context_id) ==
    IF segment.segment_id \notin DOMAIN schema.segmentDefinitions
    THEN NoRaise(<<PlainError(Msg("base_definition_not_found", segment.segment_id, NoneStr,
                                  NoneStr, NoneInt, {}, <<>>, <<>>))>>)
    ELSE LET base_def == schema.segmentDefinitions[segment.segment_id]
             context_def == IF context_id # NoneStr
                               /\ context_id \in DOMAIN schema.contextualDefinitions
                            THEN Some(schema.contextualDefinitions[context_id])
                            ELSE NoneVal
         IN  Bind(LAMBDA effective_def :
                      AndThen(ValidateElements(component_separator, segment,
                                               effective_def.elements, 1),
                              _validate_syntax_rules(segment, effective_def.rules, 1)),
                  _get_effective_definition(base_def, context_def))

-----------------------------------------------------------------------------
(* edi_schema_models.py: the structure tree *)

StructureSegment(xid, name, usage, max_use, contextDefinitionId) ==
    [type |-> "segment", xid |-> xid, name |-> name, usage |-> usage, max_use |-> max_use,
     contextDefinitionId |-> contextDefinitionId]

\* repeat: Union[str, int]
IntRepeat(n) == [is_int |-> TRUE, n |-> n, s |-> <<>>]
StrRepeat(s) == [is_int |-> FALSE, n |-> 0, s |-> s]

StructureLoop(xid, name, usage, repeat, children) ==
    [type |-> "loop", xid |-> xid, name |-> name, usage |-> usage, repeat |-> repeat,
     children |-> children]

-----------------------------------------------------------------------------
(* cdm.py: CdmLoop.  loops is the dict xid -> list of instances, in insertion order. *)

CdmLoop(loop_id) == [loop_id |-> loop_id, segments |-> <<>>, loops |-> <<>>, errors |-> <<>>]

HasLoopKey(loops, xid) == \E k \in 1..Len(loops) : loops[k].xid = xid

\* add_loop putting the new instance in front of the list
add_loop_in_front(cdm_loop, sub_loop) ==
    LET with_key == IF HasLoopKey(cdm_loop.loops, sub_loop.loop_id) THEN cdm_loop.loops
                    ELSE Append(cdm_loop.loops, [xid |-> sub_loop.loop_id, insts |-> <<>>])
    IN  [cdm_loop EXCEPT !.loops =
            [k \in 1..Len(with_key) |->
                IF with_key[k].xid = sub_loop.loop_id
                THEN [with_key[k] EXCEPT !.insts = <<sub_loop>> \o @]
                ELSE with_key[k]]]

add_loop(cdm_loop, sub_loop) ==
    LET with_key == IF HasLoopKey(cdm_loop.loops, sub_loop.loop_id) THEN cdm_loop.loops
                    ELSE Append(cdm_loop.loops, [xid |-> sub_loop.loop_id, insts |-> <<>>])
    IN  [cdm_loop EXCEPT !.loops =
            [k \in 1..Len(with_key) |->
                IF with_key[k].xid = sub_loop.loop_id
                THEN [with_key[k] EXCEPT !.insts = Append(@, sub_loop)]
                ELSE with_key[k]]]

-----------------------------------------------------------------------------
(* edi_parser.py: the structural matcher *)

UnboundedRepeat == 99999

\* int(max_repeats_str), 99999 on ValueError
MaxRepeats(schema_node) ==
    IF schema_node.type = "segment" THEN schema_node.max_use
    ELSE IF schema_node.repeat.is_int THEN schema_node.repeat.n
    ELSE IF IntRaises(Strip(schema_node.repeat.s)) THEN UnboundedRepeat
    ELSE IntOf(Strip(schema_node.repeat.s))

\* None is NoneStr
RECURSIVE _get_starting_segment_id(_)
_get_starting_segment_id(node) ==
    IF node.type = "segment" THEN node.xid
    ELSE IF Len(node.children) > 0 THEN _get_starting_segment_id(node.children[1])
    ELSE NoneStr

\* The context of the trial validation of a node
TrialContext(schema_node) ==
    IF schema_node.type = "segment" THEN schema_node.contextDefinitionId
    ELSE IF Len(schema_node.children) > 0 /\ schema_node.children[1].type = "segment"
         THEN schema_node.children[1].contextDefinitionId
    ELSE NoneStr

HasIdentifierError(errors) == \E k \in 1..Len(errors) : errors[k].is_identifier_error

\* The scan `for i, schema_node in enumerate(schema_nodes)` from index i on.
\* [raised, index]: index is the 1-based position of the node returned, 0 for (None, -1).
RECURSIVE FindFrom(_, _, _, _, _, _)
FindFrom(schema, component_separator, current_segment, schema_nodes, usage_counts, i) ==
    IF i > Len(schema_nodes) THEN [raised |-> FALSE, index |-> 0]
    ELSE LET schema_node == schema_nodes[i]
             next == FindFrom(schema, component_separator, current_segment, schema_nodes,
                              usage_counts, i + 1)
         IN  IF usage_counts[i] >= MaxRepeats(schema_node) THEN next
             ELSE IF current_segment.segment_id # _get_starting_segment_id(schema_node) THEN next
             ELSE Bind(LAMBDA trial :
                           IF trial.raised THEN [raised |-> TRUE, index |-> 0]
                           ELSE IF ~HasIdentifierError(trial.errors)
                                THEN [raised |-> FALSE, index |-> i]
                           ELSE next,
                       validate(schema, component_separator, current_segment,
                                TrialContext(schema_node)))

\* A variant that is not the source's: the scan without the usage-limit gate
FindIgnoringUsageLimit(schema, component_separator, current_segment, schema_nodes, usage_counts) ==
    FindFrom(schema, component_separator, current_segment, schema_nodes,
             [i \in DOMAIN usage_counts |-> 0], 1)

_find_best_schema_match(schema, component_separator, current_segment, schema_nodes, usage_counts) ==
    FindFrom(schema, component_separator, current_segment, schema_nodes, usage_counts, 1)

\* The locals of _build_tree at its start.  best_match_idx is 1-based, 0 for -1 (no
\* node); touched lists, in order, every segment object
\* whose errors list the invocation (or one it called) has extended, as it is afterwards.
NewFrame(segments, schema_nodes, parent_loop_id) ==
    [segments |-> segments, schema_nodes |-> schema_nodes, parent_loop_id |-> parent_loop_id,
     cdm_loop |-> CdmLoop(parent_loop_id), cursor |-> 0,
     usage_counts |-> [i \in 1..Len(schema_nodes) |-> 0],
     best_match_idx |-> 0, touched |-> <<>>, broke |-> FALSE, raised |-> FALSE]

\* The while loop is still running
InLoop(f) == ~f.broke /\ ~f.raised /\ f.cursor < Len(f.segments)

\* A variant that is not the source's: every required child reported, whatever its count
RequiredMissingIgnoringCounts(schema_nodes, usage_counts, parent_loop_id, i) ==
    LET required == SelectSeq(schema_nodes, LAMBDA node : node.usage = "R")
    IN  [k \in 1..Len(required) |->
            PlainError(Msg("required_child_missing", required[k].xid, required[k].name,
                           parent_loop_id, NoneInt, {}, <<>>, <<>>))]

\* The required-children check after the loop, from node i on
RECURSIVE RequiredMissing(_, _, _, _)
RequiredMissing(schema_nodes, usage_counts, parent_loop_id, i) ==
    IF i > Len(schema_nodes) THEN <<>>
    ELSE (IF schema_nodes[i].usage = "R" /\ usage_counts[i] = 0
          THEN <<PlainError(Msg("required_child_missing", schema_nodes[i].xid,
                                schema_nodes[i].name, parent_loop_id, NoneInt, {},
                                <<>>, <<>>))>>
          ELSE <<>>)
         \o RequiredMissing(schema_nodes, usage_counts, parent_loop_id, i + 1)

\* A variant that is not the source's: the unmatched segment counted as consumed
FinishSkipping(f) ==
    [raised |-> f.raised, loop |-> f.cdm_loop,
     consumed |-> IF f.broke THEN f.cursor + 1 ELSE f.cursor, touched |-> f.touched]

\* What _build_tree returns once its while loop has ended: (cdm_loop, cursor)
Finish(f) ==
    [raised |-> f.raised,
     loop |-> IF f.raised THEN f.cdm_loop
              ELSE [f.cdm_loop EXCEPT !.errors =
                       @ \o RequiredMissing(f.schema_nodes, f.usage_counts,
                                            f.parent_loop_id, 1)],
     consumed |-> f.cursor,
     touched |-> f.touched]

RECURSIVE PlaceLoop(_, _, _, _)
RECURSIVE MatchStep(_, _, _)
RECURSIVE RunLoop(_, _, _)
RECURSIVE _build_tree(_, _, _, _, _)

\* The same branch with the findings of the accepting trial attached before those of the
\* validation on commit
PlaceSegmentKeepingTrialFindings(schema, component_separator, f, current_segment, index) ==
    Bind(LAMBDA v :
             IF v.raised THEN [f EXCEPT !.raised = TRUE]
             ELSE LET committed == [current_segment EXCEPT !.errors = @ \o v.errors \o v.errors]
                  IN  [f EXCEPT !.cdm_loop.segments = Append(@, committed),
                                !.cursor = @ + 1,
                                !.touched = Append(@, committed),
                                !.usage_counts[index] = @ + 1],
         validate(schema, component_separator, current_segment,
                  f.schema_nodes[index].contextDefinitionId))

\* The branch of the iteration that places current_segment under the matched segment node
PlaceSegment(schema, component_separator, f, current_segment, index) ==
    Bind(LAMBDA v :
             IF v.raised THEN [f EXCEPT !.raised = TRUE]
             ELSE LET committed == [current_segment EXCEPT !.errors = @ \o v.errors]
                  IN  [f EXCEPT !.cdm_loop.segments = Append(@, committed),
                                !.cursor = @ + 1,
                                !.touched = Append(@, committed),
                                !.usage_counts[index] = @ + 1],
         validate(schema, component_separator, current_segment,
                  f.schema_nodes[index].contextDefinitionId))

\* The same branch without the findings of the sub-loop being copied to the parent
PlaceLoopKeepingFindingsBelow(schema, component_separator, f, index) ==
    Bind(LAMBDA sub :
             IF sub.raised
             THEN [f EXCEPT !.raised = TRUE, !.touched = @ \o sub.touched]
             ELSE [f EXCEPT !.cdm_loop = add_loop(f.cdm_loop, sub.loop),
                            !.cursor = @ + sub.consumed,
                            !.touched = @ \o sub.touched,
                            !.usage_counts[index] = @ + 1],
         _build_tree(schema, component_separator,
                     SubSeq(f.segments, f.cursor + 1, Len(f.segments)),
                     f.schema_nodes[index].children, f.schema_nodes[index].xid))

\* The branch of the iteration that recurses into the matched loop node
PlaceLoop(schema, component_separator, f, index) ==
    Bind(LAMBDA sub :
             IF sub.raised
             THEN [f EXCEPT !.raised = TRUE, !.touched = @ \o sub.touched]
             ELSE [f EXCEPT !.cdm_loop = [add_loop(f.cdm_loop, sub.loop)
                                             EXCEPT !.errors = @ \o sub.loop.errors],
                            !.cursor = @ + sub.consumed,
                            !.touched = @ \o sub.touched,
                            !.usage_counts[index] = @ + 1],
         _build_tree(schema, component_separator,
                     SubSeq(f.segments, f.cursor + 1, Len(f.segments)),
                     f.schema_nodes[index].children, f.schema_nodes[index].xid))

\* One iteration of the while loop of _build_tree
MatchStep(schema, component_separator, f) ==
    LET current_segment == f.segments[f.cursor + 1]
    IN  Bind(LAMBDA m :
                 IF m.raised THEN [f EXCEPT !.raised = TRUE]
                 ELSE IF m.index = 0 THEN [f EXCEPT !.broke = TRUE, !.best_match_idx = 0]
                 ELSE IF f.schema_nodes[m.index].type = "segment"
                      THEN PlaceSegment(schema, component_separator,
                                        [f EXCEPT !.best_match_idx = m.index],
                                        current_segment, m.index)
                 ELSE PlaceLoop(schema, component_separator,
                                [f EXCEPT !.best_match_idx = m.index], m.index),
             _find_best_schema_match(schema, component_separator, current_segment,
                                     f.schema_nodes, f.usage_counts))

RunLoop(schema, component_separator, f) ==
    IF InLoop(f)
    THEN Bind(LAMBDA g : RunLoop(schema, component_separator, g),
              MatchStep(schema, component_separator, f))
    ELSE f

_build_tree(schema, component_separator, segments, schema_nodes, parent_loop_id) ==
    Bind(LAMBDA f : Finish(f),
         Bind(LAMBDA f : RunLoop(schema, component_separator, f),
              NewFrame(segments, schema_nodes, parent_loop_id)))

-----------------------------------------------------------------------------
(* edi_parser.py: EdiParser._parse_transaction_set and EdiParser.parse.        *)
(* Segment lists are indexed from 1; the indexes the source computes are kept  *)
(* 0-based, -1 for "not found".                                                *)

RECURSIVE _find_next_segment(_, _, _)
_find_next_segment(segment_id, segments, start_index) ==
    IF start_index >= Len(segments) THEN -1
    ELSE IF segments[start_index + 1].segment_id = segment_id THEN start_index
    ELSE _find_next_segment(segment_id, segments, start_index + 1)

\* next((n for n in nodes if isinstance(n, StructureLoop) and n.xid == xid), None)
FirstLoop(nodes, xid) ==
    LET hits == {k \in 1..Len(nodes) : nodes[k].type = "loop" /\ nodes[k].xid = xid}
    IN  IF hits = {} THEN NoneVal
        ELSE Some(nodes[CHOOSE k \in hits : \A j \in hits : k <= j])

\* The lookup of the ST_LOOP schema node: [some, v], none where the source raises ValueError
FindStLoop(schema) ==
    LET top == FirstLoop(schema.structure, "ST_LOOP")
        isa_loop == FirstLoop(schema.structure, "ISA_LOOP")
        gs_loop == FirstLoop(isa_loop.v.children, "GS_LOOP")
    IN  IF top.some THEN top
        ELSE IF ~isa_loop.some \/ Len(isa_loop.v.children) = 0 THEN NoneVal
        ELSE IF ~gs_loop.some \/ Len(gs_loop.v.children) = 0 THEN NoneVal
        ELSE FirstLoop(gs_loop.v.children, "ST_LOOP")

StLoopChildren(st_loop_schema) ==
    SelectSeq(st_loop_schema.children, LAMBDA child : child.xid \notin {"ST", "SE"})

CdmTransaction(header, trailer, body, errors) ==
    [header |-> header, trailer |-> trailer, body |-> body, errors |-> errors]

CriticalError(st_segment) ==
    CdmValidationError(Msg("critical_parsing_error", NoneStr, NoneStr, NoneStr, NoneInt, {},
                           <<>>, <<>>),
                       st_segment.line_number, st_segment.segment_id, NoneStr, FALSE)

\* The finding naming the last of the unparsed segments
IncompleteErrorNamingLast(unparsed_segments) ==
    CdmValidationError(Msg("transaction_parsing_incomplete",
                           unparsed_segments[Len(unparsed_segments)].segment_id,
                           NoneStr, NoneStr, Len(unparsed_segments), {}, <<>>, <<>>),
                       unparsed_segments[Len(unparsed_segments)].line_number,
                       unparsed_segments[Len(unparsed_segments)].segment_id,
                       NoneStr, FALSE)

IncompleteError(unparsed_segments) ==
    CdmValidationError(Msg("transaction_parsing_incomplete", unparsed_segments[1].segment_id,
                           NoneStr, NoneStr, Len(unparsed_segments), {}, <<>>, <<>>),
                       unparsed_segments[1].line_number, unparsed_segments[1].segment_id,
                       NoneStr, FALSE)

\* [transaction, touched]: the except clause turns every exception into a finding
_parse_transaction_set(schema, component_separator, segments) ==
    LET st_segment == segments[1]
        se_segment == segments[Len(segments)]
        transaction_body_segments == SubSeq(segments, 2, Len(segments) - 1)
        st_loop_schema == FindStLoop(schema)
        failed == CdmTransaction(st_segment, se_segment, CdmLoop("ST_LOOP"),
                                 <<CriticalError(st_segment)>>)
    IN  IF ~st_loop_schema.some THEN [transaction |-> failed, touched |-> <<>>]
        ELSE Bind(LAMBDA built :
                      IF built.raised THEN [transaction |-> failed, touched |-> built.touched]
                      ELSE [transaction |->
                              CdmTransaction(st_segment, se_segment, built.loop,
                                  built.loop.errors \o
                                  (IF built.consumed < Len(transaction_body_segments)
                                   THEN <<IncompleteError(SubSeq(transaction_body_segments,
                                                                 built.consumed + 1,
                                                                 Len(transaction_body_segments)))>>
                                   ELSE <<>>)),
                            touched |-> built.touched],
                  _build_tree(schema, component_separator, transaction_body_segments,
                              StLoopChildren(st_loop_schema.v), "ST_LOOP"))

\* The inner loop with an unclosed ST discarding the transactions of its group
RECURSIVE ParseTransactionsDropping(_, _, _, _, _)
ParseTransactionsDropping(schema, component_separator, transaction_segments, ts_cursor, acc) ==
    IF ts_cursor >= Len(transaction_segments) THEN acc
    ELSE LET st_idx == _find_next_segment("ST", transaction_segments, ts_cursor)
             se_idx == _find_next_segment("SE", transaction_segments, st_idx)
         IN  IF st_idx = -1 THEN acc
             ELSE IF se_idx = -1
             THEN [acc EXCEPT !.transactions = <<>>,
                              !.errors = Append(@,
                      PlainError(Msg("unclosed_transaction_set", NoneStr, NoneStr, NoneStr,
                                     transaction_segments[st_idx + 1].line_number, {},
                                     <<>>, <<>>)))]
             ELSE Bind(LAMBDA more :
                           ParseTransactionsDropping(schema, component_separator,
                                                     transaction_segments, se_idx + 1, more),
                       Bind(LAMBDA t : [acc EXCEPT !.transactions = Append(@, t.transaction),
                                                   !.touched = @ \o t.touched],
                            _parse_transaction_set(schema, component_separator,
                                SubSeq(transaction_segments, st_idx + 1, se_idx + 1))))

\* The inner while loop of parse(): the transactions of one functional group.
\* acc = [transactions, errors (findings added to the interchange), touched]
RECURSIVE ParseTransactions(_, _, _, _, _)
ParseTransactions(schema, component_separator, transaction_segments, ts_cursor, acc) ==
    IF ts_cursor >= Len(transaction_segments) THEN acc
    ELSE LET st_idx == _find_next_segment("ST", transaction_segments, ts_cursor)
             se_idx == _find_next_segment("SE", transaction_segments, st_idx)
         IN  IF st_idx = -1 THEN acc
             ELSE IF se_idx = -1
             THEN [acc EXCEPT !.errors = Append(@,
                      PlainError(Msg("unclosed_transaction_set", NoneStr, NoneStr, NoneStr,
                                     transaction_segments[st_idx + 1].line_number, {},
                                     <<>>, <<>>)))]
             ELSE Bind(LAMBDA more :
                           ParseTransactions(schema, component_separator,
                                             transaction_segments, se_idx + 1, more),
                       Bind(LAMBDA t : [acc EXCEPT !.transactions = Append(@, t.transaction),
                                                   !.touched = @ \o t.touched],
                            _parse_transaction_set(schema, component_separator,
                                SubSeq(transaction_segments, st_idx + 1, se_idx + 1))))

Validated(segment, v) == [segment EXCEPT !.errors = @ \o v.errors]

\* One functional group GS..GE, its envelope validated without exception: acc after
\* its transactions are parsed and the group is appended
GroupParsed(schema, component_separator, group_segments, gs_idx, ge_idx, gs_v, ge_v, acc) ==
    LET header == Validated(group_segments[gs_idx + 1], gs_v)
        trailer == Validated(group_segments[ge_idx + 1], ge_v)
    IN  Bind(LAMBDA txs :
                 [acc EXCEPT
                     !.functional_groups = Append(@,
                         [header |-> header, trailer |-> trailer,
                          transactions |-> txs.transactions, errors |-> <<>>]),
                     !.errors = txs.errors,
                     !.touched = txs.touched],
             ParseTransactions(schema, component_separator,
                 SubSeq(group_segments, gs_idx + 2, ge_idx), 0,
                 [transactions |-> <<>>, errors |-> acc.errors,
                  touched |-> acc.touched \o <<header, trailer>>]))

\* The outer while loop of parse(): the functional groups between ISA and IEA.
\* acc = [functional_groups, errors, touched, raised]
RECURSIVE ParseGroups(_, _, _, _, _)
ParseGroups(schema, component_separator, group_segments, cursor, acc) ==
    IF cursor >= Len(group_segments) THEN acc
    ELSE LET gs_idx == _find_next_segment("GS", group_segments, cursor)
             ge_idx == _find_next_segment("GE", group_segments, gs_idx)
             gs_segment == group_segments[gs_idx + 1]
             ge_segment == group_segments[ge_idx + 1]
         IN  IF gs_idx = -1 THEN acc
             ELSE IF ge_idx = -1
             THEN [acc EXCEPT !.errors = Append(@,
                      PlainError(Msg("unclosed_functional_group", NoneStr, NoneStr, NoneStr,
                                     gs_segment.line_number, {}, <<>>, <<>>)))]
             ELSE Bind(LAMBDA gs_v :
                    IF gs_v.raised THEN [acc EXCEPT !.raised = TRUE]
                    ELSE Bind(LAMBDA ge_v :
                           IF ge_v.raised
                           THEN [acc EXCEPT !.raised = TRUE,
                                            !.touched = Append(@, Validated(gs_segment, gs_v))]
                           ELSE Bind(LAMBDA more :
                                         ParseGroups(schema, component_separator,
                                                     group_segments, ge_idx + 1, more),
                                     GroupParsed(schema, component_separator, group_segments,
                                                 gs_idx, ge_idx, gs_v, ge_v, acc)),
                           validate(schema, component_separator, ge_segment, NoneStr)),
                    validate(schema, component_separator, gs_segment, NoneStr))

CdmInterchange(header, trailer, functional_groups, errors) ==
    [header |-> header, trailer |-> trailer, functional_groups |-> functional_groups,
     errors |-> errors]

DummySegment(segment_id) == CdmSegment(segment_id, <<>>, 0)

EnvelopeNotFound ==
    PlainError(Msg("isa_iea_envelope_not_found", NoneStr, NoneStr, NoneStr, NoneInt, {},
                   <<>>, <<>>))

\* EdiParser.parse(): [raised, interchange, self_errors, touched]
parse(schema, component_separator, segs) ==
    LET isa_idx == _find_next_segment("ISA", segs, 0)
        iea_idx == _find_next_segment("IEA", segs, IF isa_idx # -1 THEN isa_idx ELSE 0)
        isa_segment == segs[isa_idx + 1]
        iea_segment == segs[iea_idx + 1]
        nothing == CdmInterchange(DummySegment("ISA"), DummySegment("IEA"), <<>>, <<>>)
    IN  IF isa_idx = -1 \/ iea_idx = -1
        THEN [raised |-> FALSE,
              interchange |-> CdmInterchange(DummySegment("ISA"), DummySegment("IEA"), <<>>,
                                             <<EnvelopeNotFound>>),
              self_errors |-> <<EnvelopeNotFound>>, touched |-> <<>>]
        ELSE Bind(LAMBDA isa_v :
               IF isa_v.raised
               THEN [raised |-> TRUE, interchange |-> nothing, self_errors |-> <<>>,
                     touched |-> <<>>]
               ELSE Bind(LAMBDA iea_v :
                      IF iea_v.raised
                      THEN [raised |-> TRUE, interchange |-> nothing, self_errors |-> <<>>,
                            touched |-> <<Validated(isa_segment, isa_v)>>]
                      ELSE Bind(LAMBDA groups :
                                    [raised |-> groups.raised,
                                     interchange |->
                                         CdmInterchange(Validated(isa_segment, isa_v),
                                                        Validated(iea_segment, iea_v),
                                                        groups.functional_groups,
                                                        groups.errors),
                                     self_errors |-> <<>>, touched |-> groups.touched],
                                ParseGroups(schema, component_separator,
                                    SubSeq(segs, isa_idx + 2, iea_idx), 0,
                                    [functional_groups |-> <<>>, errors |-> <<>>,
                                     touched |-> <<Validated(isa_segment, isa_v),
                                                   Validated(iea_segment, iea_v)>>,
                                     raised |-> FALSE])),
                      validate(schema, component_separator, iea_segment, NoneStr)),
               validate(schema, component_separator, isa_segment, NoneStr))

\* The segment objects after the errors.extend() calls of one parse()
ApplyTouched(segs, touched) ==
    [i \in 1..Len(segs) |->
        IF \E k \in 1..Len(touched) : touched[k].line_number = segs[i].line_number
        THEN touched[CHOOSE k \in 1..Len(touched) :
                        touched[k].line_number = segs[i].line_number]
        ELSE segs[i]]

-----------------------------------------------------------------------------
(* The schemas the parser is constructed with: a reduced 837 implementation    *)
(* guide (identifier-disambiguated HL loops, two REF contexts, a composite, a  *)
(* syntax rule, a time format on the group header) and one whose structure has *)
(* no ST_LOOP.                                                                 *)

Scalar(xid, usage, seq, dataType, minLength, maxLength, format, valid_codes) ==
    BaseElement(xid, usage, seq, dataType, minLength, maxLength, format, valid_codes,
                <<>>, FALSE)

SegmentDefinition(elements, rules) == [elements |-> elements, rules |-> rules]

SegmentDefinitions837 ==
    [ISA |-> SegmentDefinition(
                <<Scalar("ISA01", "R", 1, "ID", 2, 2, NoneStr, <<<<"0", "0">>, <<"0", "3">>>>)>>,
                <<>>),
     IEA |-> SegmentDefinition(
                <<Scalar("IEA01", "R", 1, "N0", 1, 5, NoneStr, <<>>)>>, <<>>),
     GS  |-> SegmentDefinition(
                <<Scalar("GS01", "R", 1, "ID", 2, 2, NoneStr, <<<<"H", "P">>>>),
                  Scalar("GS02", "S", 2, "TM", 4, 4, "HHMM", <<>>)>>,
                <<>>),
     GE  |-> SegmentDefinition(
                <<Scalar("GE01", "R", 1, "N0", 1, 5, NoneStr, <<>>)>>, <<>>),
     BHT |-> SegmentDefinition(
                <<Scalar("BHT01", "R", 1, "ID", 2, 4, NoneStr, <<>>)>>, <<>>),
     HL  |-> SegmentDefinition(
                <<Scalar("HL01", "R", 1, "ID", 2, 2, NoneStr,
                         <<<<"2", "0">>, <<"2", "2">>, <<"2", "3">>>>),
                  Scalar("HL02", "S", 2, "ID", 1, 1, NoneStr, <<<<"0">>, <<"1">>>>)>>,
                <<>>),
     REF |-> SegmentDefinition(
                <<Scalar("REF01", "R", 1, "ID", 2, 2, NoneStr, <<<<"E", "T">>, <<"S", "S">>>>),
                  Scalar("REF02", "S", 2, "AN", 1, 5, NoneStr, <<>>)>>,
                <<[ruleId |-> "REF_R1",
                   conditions |-> [kind |-> "ALL_OF",
                                   clauses |-> <<[element |-> <<"R", "E", "F", "0", "1">>,
                                                  operator |-> "IS",
                                                  value |-> Some(<<"E", "T">>)]>>],
                   then |-> <<[assertion |-> "MUST_BE_PRESENT", element |-> <<"R", "E", "F", "0", "2">>,
                               elements |-> <<>>, value |-> NoneInt]>>]>>),
     CLM |-> SegmentDefinition(
                <<Scalar("CLM01", "R", 1, "R", 1, 5, NoneStr, <<>>),
                  BaseElement("CLM02", "S", 2, "Composite", NoneInt, NoneInt, NoneStr, <<>>,
                      <<Scalar("1", "R", 1, "ID", 1, 2, NoneStr, <<<<"1", "1">>>>),
                        Scalar("2", "R", 2, "ID", 1, 1, NoneStr, <<<<"B">>>>)>>,
                      FALSE)>>,
                <<>>)]

IdentifierCode(code) == [valid_codes |-> <<code>>, is_identifier |-> TRUE]

ContextualDefinitions837 ==
    [HL_2000A |-> [elements |-> [HL01 |-> IdentifierCode(<<"2", "0">>)]],
     HL_2000B |-> [elements |-> [HL01 |-> IdentifierCode(<<"2", "2">>)]],
     HL_2000C |-> [elements |-> [HL01 |-> IdentifierCode(<<"2", "3">>)]],
     REF_TAX  |-> [elements |-> [REF01 |-> [valid_codes |-> <<<<"E", "T">>>>]]],
     REF_SSN  |-> [elements |-> [REF01 |-> [valid_codes |-> <<<<"S", "S">>>>]]]]

Loop2000B ==
    StructureLoop("2000B", "SUBSCRIBER", "S", IntRepeat(2),
        <<StructureSegment("HL", "SUBSCRIBER LEVEL", "R", 1, "HL_2000B"),
          StructureSegment("CLM", "CLAIM", "R", 1, NoneStr)>>)

Loop2000C ==
    StructureLoop("2000C", "PATIENT", "S", StrRepeat(<<">", "1">>),
        <<StructureSegment("HL", "PATIENT LEVEL", "R", 1, "HL_2000C"),
          StructureSegment("CLM", "CLAIM", "S", 2, NoneStr)>>)

Loop2000A ==
    StructureLoop("2000A", "BILLING PROVIDER", "R", StrRepeat(<<">", "1">>),
        <<StructureSegment("HL", "BILLING LEVEL", "R", 1, "HL_2000A"),
          StructureSegment("REF", "TAX ID", "S", 1, "REF_TAX"),
          StructureSegment("REF", "SSN", "R", 1, "REF_SSN"),
          Loop2000B,
          Loop2000C>>)

StLoop837 ==
    StructureLoop("ST_LOOP", "TRANSACTION", "R", StrRepeat(<<">", "1">>),
        <<StructureSegment("ST", "HEADER", "R", 1, NoneStr),
          StructureSegment("BHT", "BEGINNING", "R", 1, NoneStr),
          Loop2000A,
          StructureSegment("SE", "TRAILER", "R", 1, NoneStr)>>)

Schema837 ==
    [segmentDefinitions |-> SegmentDefinitions837,
     contextualDefinitions |-> ContextualDefinitions837,
     structure |-> <<StructureLoop("ISA_LOOP", "INTERCHANGE", "R", IntRepeat(1),
                       <<StructureLoop("GS_LOOP", "GROUP", "R", StrRepeat(<<">", "1">>),
                                       <<StLoop837>>)>>)>>]

SchemaNoStLoop ==
    [segmentDefinitions |-> SegmentDefinitions837,
     contextualDefinitions |-> ContextualDefinitions837,
     structure |-> <<StructureLoop("ISA_LOOP", "INTERCHANGE", "R", IntRepeat(1),
                       <<StructureLoop("GS_LOOP", "GROUP", "R", StrRepeat(<<">", "1">>),
                            <<StructureSegment("GS", "GROUP HEADER", "R", 1, NoneStr)>>)>>)>>]

\* Loops the 837 guide has none of: one whose first child is itself a loop, one whose
\* first child may not be used, one whose repeat is no number; and a segment usable twice
LoopOuter == StructureLoop("3000", "OUTER", "S", IntRepeat(2), <<Loop2000B>>)

LoopUnusableStart ==
    StructureLoop("4000", "UNUSABLE START", "S", IntRepeat(2),
        <<StructureSegment("REF", "NEVER", "S", 0, NoneStr),
          StructureSegment("CLM", "CLAIM", "S", 1, NoneStr)>>)

LoopMalformedRepeat ==
    StructureLoop("5000", "MALFORMED REPEAT", "S", StrRepeat(<<"1", "X">>),
        <<StructureSegment("CLM", "CLAIM", "R", 1, NoneStr)>>)

ProbeNodes ==
    <<StructureSegment("BHT", "TWICE", "S", 2, NoneStr), LoopOuter, LoopUnusableStart,
      LoopMalformedRepeat>>

SchemaIds == {"837", "no_st_loop"}
SchemaOf(id) == IF id = "837" THEN Schema837 ELSE SchemaNoStLoop

\* The sibling lists of the structure: (children, xid of the loop they belong to)
SiblingLists ==
    {[nodes |-> StLoopChildren(StLoop837), xid |-> "ST_LOOP"],
     [nodes |-> Loop2000A.children, xid |-> "2000A"],
     [nodes |-> Loop2000B.children, xid |-> "2000B"],
     [nodes |-> Loop2000C.children, xid |-> "2000C"],
     [nodes |-> ProbeNodes, xid |-> "PROBE"]}

\* Decoded body segments (id, element values); line numbers are given on placement
BodyForms ==
    {[segment_id |-> "BHT", elements |-> <<<<"0", "0", "1", "9">>>>],
     [segment_id |-> "HL",  elements |-> <<<<"2", "0">>, <<"1">>>>],
     [segment_id |-> "HL",  elements |-> <<<<"2", "2">>, <<"9">>>>],
     [segment_id |-> "HL",  elements |-> <<<<"2", "3">>, <<"0">>>>],
     [segment_id |-> "REF", elements |-> <<<<"E", "T">>>>],
     [segment_id |-> "CLM", elements |-> <<<<"1", "0", "0">>, <<"1", "1", ":", "X">>>>],
     [segment_id |-> "ZZZ", elements |-> <<<<"1">>>>]}

SeqsUpTo(S, n) == UNION {[1..k -> S] : k \in 0..n}

\* _segmentize numbers the segments in stream order
Numbered(forms, first_line) ==
    [i \in 1..Len(forms) |->
        CdmSegment(forms[i].segment_id, forms[i].elements, first_line + i - 1)]

-----------------------------------------------------------------------------
(* The parser's life: constructed on an input, then parse() called on it *)

Layouts ==
    {"plain", "bad_isa", "junk_before_isa", "junk_in_group", "junk_between_groups",
     "junk_between_transactions", "no_iea", "no_isa", "unclosed_gs", "unclosed_st",
     "gs_time_sup2", "unclosed_st_then_gs"}

\* The decoded segment stream of an input with body b in the given envelope layout
Layout(name, b) ==
    LET IsaOk == [segment_id |-> "ISA", elements |-> <<<<"0", "0">>>>]
        IsaBadCode == [segment_id |-> "ISA", elements |-> <<<<"Z", "Z">>>>]
        IeaOk == [segment_id |-> "IEA", elements |-> <<<<"1">>>>]
        GsOk == [segment_id |-> "GS", elements |-> <<<<"H", "P">>, <<"1", "2", "0", "0">>>>]
        GsSupTime == [segment_id |-> "GS",
                      elements |-> <<<<"H", "P">>, <<"sup2", "sup2", "sup2", "sup2">>>>]
        GeOk == [segment_id |-> "GE", elements |-> <<<<"1">>>>]
        StOk == [segment_id |-> "ST", elements |-> <<<<"8", "3", "7">>>>]
        SeOk == [segment_id |-> "SE", elements |-> <<<<"1">>>>]
        Junk == [segment_id |-> "ZZZ", elements |-> <<<<"1">>>>]
        tx == <<StOk>> \o b \o <<SeOk>>
        group == <<GsOk>> \o tx \o <<GeOk>>
        empty_group == <<GsOk, StOk, SeOk, GeOk>>
    IN  CASE name = "plain" -> <<IsaOk>> \o group \o <<IeaOk>>
          [] name = "bad_isa" -> <<IsaBadCode>> \o group \o <<IeaOk>>
          [] name = "junk_before_isa" -> <<Junk, IsaOk>> \o group \o <<IeaOk>>
          [] name = "junk_in_group" ->
                <<IsaOk, GsOk, Junk>> \o tx \o <<Junk, GeOk, IeaOk>>
          [] name = "junk_between_groups" ->
                <<IsaOk>> \o group \o <<Junk>> \o empty_group \o <<IeaOk>>
          [] name = "junk_between_transactions" ->
                <<IsaOk, GsOk>> \o tx \o <<Junk, StOk, SeOk, GeOk, IeaOk>>
          [] name = "no_iea" -> <<IsaOk>> \o group
          [] name = "no_isa" -> group \o <<IeaOk>>
          [] name = "unclosed_gs" -> <<IsaOk>> \o group \o <<GsOk>> \o tx \o <<IeaOk>>
          [] name = "unclosed_st" ->
                <<IsaOk, GsOk, StOk, SeOk, StOk>> \o b \o <<GeOk>> \o empty_group \o <<IeaOk>>
          [] name = "gs_time_sup2" -> <<IsaOk, GsSupTime>> \o tx \o <<GeOk, IeaOk>>
          [] name = "unclosed_st_then_gs" ->
                <<IsaOk, GsOk, StOk, SeOk, StOk>> \o b \o <<GeOk>> \o empty_group
                    \o <<GsOk, StOk, SeOk, IeaOk>>

Scenarios ==
    {[layout |-> l, schema |-> "837"] : l \in Layouts}
        \cup {[layout |-> "plain", schema |-> "no_st_loop"]}

DelimiterChoices == {[element |-> "*", segment |-> "~", component |-> ":"]}

NoInterchange == CdmInterchange(DummySegment("ISA"), DummySegment("IEA"), <<>>, <<>>)
IdleFrame == NewFrame(<<>>, <<>>, "root")
NoReturn == [returned |-> FALSE, raised |-> FALSE, loop |-> CdmLoop("root"), consumed |-> 0]
NoEnvelopeInput ==
    [used |-> FALSE, interchange |-> NoInterchange, raw_edi_string |-> <<>>]
NoEnvelopeOutput == [state |-> "none", errors |-> <<>>]
NoGeneratorInput == [used |-> FALSE]
NoGeneratorOutput == [state |-> "none", text |-> <<>>]
NoVariant == [used |-> FALSE]
NoManager == [used |-> FALSE]
NoValidator == [used |-> FALSE]

Init ==
    /\ \E sc \in Scenarios, b \in SeqsUpTo(BodyForms, MaxBody), d \in DelimiterChoices :
          /\ schema_id = sc.schema
          /\ delims = d
          /\ all_segments = Numbered(Layout(sc.layout, b), 1)
    /\ self_errors = <<>>
    /\ interchange = NoInterchange
    /\ outcome = "none"
    /\ calls = 0
    /\ first_view = NoInterchange
    /\ frame = IdleFrame
    /\ ret = NoReturn
    /\ env_in = NoEnvelopeInput
    /\ env_out = NoEnvelopeOutput
    /\ gen_in = NoGeneratorInput
    /\ gen_out = NoGeneratorOutput
    /\ edi_string = NoneVal
    /\ variant = NoVariant
    /\ manager = NoManager
    /\ validator = NoValidator

\* parser.parse()
Parse ==
    /\ calls < MaxParses
    /\ \E r \in {parse(SchemaOf(schema_id), delims.component, all_segments)} :
          /\ all_segments' = ApplyTouched(all_segments, r.touched)
          /\ self_errors' = r.self_errors
          /\ outcome' = IF r.raised THEN "raised" ELSE "returned"
          /\ interchange' = IF r.raised THEN interchange ELSE r.interchange
          /\ first_view' = IF calls = 0 /\ ~r.raised THEN r.interchange ELSE first_view
    /\ calls' = calls + 1
    /\ UNCHANGED <<schema_id, delims, frame, ret, env_in, env_out, gen_in, gen_out, edi_string,
                   variant, manager, validator>>

Next == Parse

Spec == Init /\ [][Next]_vars

-----------------------------------------------------------------------------
(* Two parsers: one constructed on an input and one on the same input with the *)
(* value of one element changed, each parsed once.                             *)

EditValues == {<<>>, <<"9">>, <<"2", "2">>, <<"S", "S">>, <<"sup2", "sup2", "sup2", "sup2">>}

\* The decoded input with element position of the segment at `line` set to value
Edited(segments, line, position, value) ==
    [i \in 1..Len(segments) |->
        CdmSegment(segments[i].segment_id,
                   IF i = line THEN [segments[i].elements EXCEPT ![position] = value]
                   ELSE segments[i].elements,
                   segments[i].line_number)]

InitEdit ==
    /\ \E b \in SeqsUpTo(BodyForms, MaxBody), d \in DelimiterChoices :
          /\ delims = d
          /\ all_segments = Numbered(Layout("plain", b), 1)
    /\ schema_id = "837"
    /\ self_errors = <<>>
    /\ interchange = NoInterchange
    /\ outcome = "none"
    /\ calls = 0
    /\ first_view = NoInterchange
    /\ frame = IdleFrame
    /\ ret = NoReturn
    /\ env_in = NoEnvelopeInput
    /\ env_out = NoEnvelopeOutput
    /\ gen_in = NoGeneratorInput
    /\ gen_out = NoGeneratorOutput
    /\ edi_string = NoneVal
    /\ variant = NoVariant
    /\ manager = NoManager
    /\ validator = NoValidator

\* EdiParser(changed, schema).parse(), after the first parser was parsed once
ParseEdited ==
    /\ calls = 1
    /\ ~variant.used
    /\ \E line \in 1..Len(all_segments) :
          \E position \in 1..Len(all_segments[line].elements) :
             \E value \in EditValues \ {all_segments[line].elements[position]} :
                \E segs \in {Edited(all_segments, line, position, value)} :
                   \E r \in {parse(SchemaOf(schema_id), delims.component, segs)} :
                      variant' = [used |-> TRUE, line |-> line, position |-> position,
                                  all_segments |-> ApplyTouched(segs, r.touched),
                                  outcome |-> IF r.raised THEN "raised" ELSE "returned",
                                  interchange |-> IF r.raised THEN NoInterchange
                                                  ELSE r.interchange]
    /\ UNCHANGED <<schema_id, delims, all_segments, self_errors, interchange, outcome, calls,
                   first_view, frame, ret, env_in, env_out, gen_in, gen_out, edi_string,
                   manager, validator>>

SpecEdit == InitEdit /\ [][Parse \/ ParseEdited]_vars

-----------------------------------------------------------------------------
(* One top-level _build_tree invocation, iteration by iteration: a window of   *)
(* decoded segments matched against one sibling list of the 837 structure.     *)

InitMatch ==
    /\ \E w \in SeqsUpTo(BodyForms, MaxWindow), sl \in SiblingLists,
          d \in DelimiterChoices :
          /\ delims = d
          /\ all_segments = Numbered(w, 1)
          /\ frame = NewFrame(Numbered(w, 1), sl.nodes, sl.xid)
    /\ schema_id = "837"
    /\ self_errors = <<>>
    /\ interchange = NoInterchange
    /\ outcome = "none"
    /\ calls = 0
    /\ first_view = NoInterchange
    /\ ret = NoReturn
    /\ env_in = NoEnvelopeInput
    /\ env_out = NoEnvelopeOutput
    /\ gen_in = NoGeneratorInput
    /\ gen_out = NoGeneratorOutput
    /\ edi_string = NoneVal
    /\ variant = NoVariant
    /\ manager = NoManager
    /\ validator = NoValidator

\* One iteration of `while cursor < len(segments)`
BT_Iterate ==
    /\ ~ret.returned
    /\ InLoop(frame)
    /\ \E f \in {MatchStep(SchemaOf(schema_id), delims.component, frame)} :
          /\ frame' = f
          /\ all_segments' = ApplyTouched(all_segments, f.touched)
    /\ UNCHANGED <<schema_id, delims, self_errors, interchange, outcome, calls, first_view,
                   ret, env_in, env_out, gen_in, gen_out, edi_string, variant, manager,
                   validator>>

\* The code after the while loop: the required-children check and the return
BT_Return ==
    /\ ~ret.returned
    /\ ~InLoop(frame)
    /\ \E r \in {Finish(frame)} :
          ret' = [returned |-> TRUE, raised |-> r.raised, loop |-> r.loop,
                  consumed |-> r.consumed]
    /\ UNCHANGED <<schema_id, delims, all_segments, self_errors, interchange, outcome,
                   calls, first_view, frame, env_in, env_out, gen_in, gen_out, edi_string,
                   variant, manager, validator>>

NextMatch == BT_Iterate \/ BT_Return

SpecMatch == InitMatch /\ [][NextMatch]_vars

-----------------------------------------------------------------------------
(* ta1_validator.py: validate_interchange_envelope.  A note code is the string *)
(* of its three digits.                                                        *)

\* add_error(note_code): appended unless already present
add_error(errors, note_code) ==
    IF note_code \in SeqRange(errors) THEN errors ELSE Append(errors, note_code)

IsDec(s, p) == p <= Len(s) /\ s[p] \in DecimalChars
In1to9(s, p) == p <= Len(s) /\ s[p] \in DecimalChars \ {"0"}

\* %m at position p: 1[0-2]|0[1-9] (two characters), [1-9] (one character)
Month2(s, p) ==
    \/ IsDec(s, p) /\ s[p] = "1" /\ IsDec(s, p + 1) /\ s[p + 1] \in {"0", "1", "2"}
    \/ IsDec(s, p) /\ s[p] = "0" /\ In1to9(s, p + 1)
Month1(s, p) == In1to9(s, p)

\* %d at position p: the length of the first alternative of
\* 3[01]|[12]\d|0[1-9]|[1-9]| [1-9] that matches, 0 if none does
DayLen(s, p) ==
    IF IsDec(s, p) /\ s[p] = "3" /\ IsDec(s, p + 1) /\ s[p + 1] \in {"0", "1"} THEN 2
    ELSE IF IsDec(s, p) /\ s[p] \in {"1", "2"} /\ IsDec(s, p + 1) THEN 2
    ELSE IF IsDec(s, p) /\ s[p] = "0" /\ In1to9(s, p + 1) THEN 2
    ELSE IF In1to9(s, p) THEN 1
    ELSE IF p <= Len(s) /\ s[p] = " " /\ In1to9(s, p + 1) THEN 2
    ELSE 0

\* datetime.strptime(value, '%y%m%d') returns: the format's regular expression
\* matches a prefix, no data remains unconverted, and the day exists in the month
StrptimeYYMMDD(value) ==
    /\ value.some
    /\ IsDec(value.v, 1) /\ IsDec(value.v, 2)
    /\ LET s == value.v
           mlen == IF Month2(s, 3) /\ DayLen(s, 5) > 0 THEN 2
                   ELSE IF Month1(s, 3) /\ DayLen(s, 4) > 0 THEN 1
                   ELSE 0
           dlen == DayLen(s, 3 + mlen)
           yy == IntOf(SubSeq(s, 1, 2))
           y == IF yy < 69 THEN 2000 + yy ELSE 1900 + yy
           m == IntOf(SubSeq(s, 3, 2 + mlen))
           d == IntOf(Strip(SubSeq(s, 3 + mlen, 2 + mlen + dlen)))
       IN  mlen > 0 /\ 2 + mlen + dlen = Len(s) /\ d <= DaysIn(m, y)

\* %H at position p: 2[0-3]|[0-1]\d (two characters), \d (one character)
Hour2(s, p) ==
    \/ IsDec(s, p) /\ s[p] = "2" /\ IsDec(s, p + 1) /\ s[p + 1] \in {"0", "1", "2", "3"}
    \/ IsDec(s, p) /\ s[p] \in {"0", "1"} /\ IsDec(s, p + 1)

\* %M at position p: the length of the first alternative of [0-5]\d|\d that matches
MinuteLen(s, p) ==
    IF IsDec(s, p) /\ s[p] \in {"0", "1", "2", "3", "4", "5"} /\ IsDec(s, p + 1) THEN 2
    ELSE IF IsDec(s, p) THEN 1
    ELSE 0

\* datetime.strptime(value, '%H%M') returns
StrptimeHHMM(value) ==
    /\ value.some
    /\ LET s == value.v
           hlen == IF Hour2(s, 1) /\ MinuteLen(s, 3) > 0 THEN 2
                   ELSE IF IsDec(s, 1) /\ MinuteLen(s, 2) > 0 THEN 1
                   ELSE 0
       IN  hlen > 0 /\ hlen + MinuteLen(s, hlen + 1) = Len(s)

IdQualifiers ==
    {<<"0", "1">>, <<"1", "4">>, <<"2", "0">>, <<"2", "7">>, <<"2", "8">>, <<"2", "9">>,
     <<"3", "0">>, <<"3", "3">>, <<"Z", "Z">>}

\* `not x or not x.strip()` for an Optional[str]
Blank(opt) == ~opt.some \/ opt.v = <<>> \/ Strip(opt.v) = <<>>

\* One `if ...: add_error(code)` statement: raised when evaluating its condition raises
\* (str.strip() called on None), hit when the condition is true
Check(raised, hit, code) == [raised |-> raised, hit |-> ~raised /\ hit, code |-> code]

\* The statements of lines 48-114, in order
EnvelopeChecks(isa, iea, gs_count) ==
    LET e(n) == get_element(isa, n)
        q1 == Strip(e(1).v)
        q3 == Strip(e(3).v)
    IN  <<Check(~e(13).some \/ ~get_element(iea, 2).some,
                Strip(e(13).v) # Strip(get_element(iea, 2).v), "001"),
          Check(~e(5).some, Strip(e(5).v) \notin IdQualifiers, "005"),
          Check(FALSE, Blank(e(6)), "006"),
          Check(~e(7).some, Strip(e(7).v) \notin IdQualifiers, "007"),
          Check(FALSE, Blank(e(8)), "008"),
          Check(~e(1).some, q1 \notin {<<"0", "0">>, <<"0", "3">>}, "010"),
          Check(~e(1).some, q1 = <<"0", "3">> /\ Blank(e(2)), "011"),
          Check(~e(1).some \/ (q1 = <<"0", "0">> /\ ~e(2).some),
                q1 = <<"0", "0">> /\ Strip(e(2).v) # <<>>, "011"),
          Check(~e(3).some, q3 \notin {<<"0", "0">>, <<"0", "1">>}, "012"),
          Check(~e(3).some, q3 = <<"0", "1">> /\ Blank(e(4)), "013"),
          Check(~e(3).some \/ (q3 = <<"0", "0">> /\ ~e(4).some),
                q3 = <<"0", "0">> /\ Strip(e(4).v) # <<>>, "013"),
          Check(FALSE, ~StrptimeYYMMDD(e(9)), "014"),
          Check(FALSE, ~StrptimeHHMM(e(10)), "015"),
          Check(FALSE, e(11) # Some(<<"^">>), "016"),
          Check(FALSE, ~e(12).some \/ Len(e(12).v) # 5 \/ ~IsDigitStr(e(12).v), "017"),
          Check(FALSE, ~e(13).some \/ e(13).v = <<>> \/ ~IsDigitStr(Strip(e(13).v))
                           \/ Len(Strip(e(13).v)) # 9, "018"),
          Check(FALSE, e(14) \notin {Some(<<"0">>), Some(<<"1">>)}, "019"),
          Check(FALSE, e(15) \notin {Some(<<"T">>), Some(<<"P">>)}, "020"),
          Check(FALSE, ~get_element(iea, 1).some
                           \/ IntRaises(Strip(get_element(iea, 1).v))
                           \/ gs_count # IntOf(Strip(get_element(iea, 1).v)), "021")>>

\* The statements from index k on, run on the errors list
RECURSIVE RunChecks(_, _, _)
RunChecks(checks, k, errors) ==
    IF k > Len(checks) THEN [raised |-> FALSE, errors |-> errors]
    ELSE IF checks[k].raised THEN [raised |-> TRUE, errors |-> errors]
    ELSE Bind(LAMBDA more : RunChecks(checks, k + 1, more),
              IF checks[k].hit THEN add_error(errors, checks[k].code) ELSE errors)

\* str.startswith('ISA')
StartsWithISA(s) == Len(s) >= 3 /\ SubSeq(s, 1, 3) = <<"I", "S", "A">>

\* The delimiter checks of lines 28-33 (an index of the model is the source's plus one)
DelimiterErrors(clean_edi) ==
    LET element_sep == clean_edi[4]
        segment_term == clean_edi[106]
        component_sep == clean_edi[105]
        e1 == IF IsAlnumChar(element_sep) \/ element_sep \in {"CR", "LF"}
              THEN add_error(<<>>, "026") ELSE <<>>
        e2 == IF IsAlnumChar(segment_term) THEN add_error(e1, "004") ELSE e1
    IN  IF IsAlnumChar(component_sep) THEN add_error(e2, "027") ELSE e2

\* [raised, errors]
validate_interchange_envelope(ic, raw_edi_string) ==
    LET clean_edi == Strip(raw_edi_string)
    IN  IF ~(StartsWithISA(clean_edi) /\ Len(clean_edi) >= 106)
        THEN [raised |-> FALSE, errors |-> <<"022">>]
        ELSE IF DelimiterErrors(clean_edi) # <<>>
        THEN [raised |-> FALSE, errors |-> DelimiterErrors(clean_edi)]
        ELSE IF ic.header.elements = <<>> \/ ic.trailer.elements = <<>>
        THEN [raised |-> FALSE, errors |-> <<"022">>]
        ELSE Bind(LAMBDA checks : RunChecks(checks, 1, <<>>),
                  EnvelopeChecks(ic.header, ic.trailer, Len(ic.functional_groups)))

-----------------------------------------------------------------------------
(* validate_interchange_envelope called on an interchange and its raw input.   *)
(* The ISA of the inputs deviates from a compliant one in at most              *)
(* MaxDeviations elements, or is cut short; the raw input carries the three    *)
(* delimiters at offsets 3, 104 and 105.                                       *)

MaxDeviations == 2

CompliantIsa ==
    <<<<"0", "0">>,
      <<" ", " ">>,
      <<"0", "0">>,
      <<" ", " ">>,
      <<"Z", "Z">>,
      <<"A", "B">>,
      <<"Z", "Z">>,
      <<"A", "B">>,
      <<"2", "4", "0", "7", "1", "8">>,
      <<"1", "2", "0", "0">>,
      <<"^">>,
      <<"0", "0", "5", "0", "1">>,
      <<"0", "0", "0", "0", "0", "0", "0", "0", "1">>,
      <<"0">>,
      <<"T">>,
      <<":">>>>

CompliantIea == <<<<"1">>, <<"0", "0", "0", "0", "0", "0", "0", "0", "1">>>>

\* Other values of ISA element p
IsaAlternatives(p) ==
    CASE p = 1 -> {<<"0", "3">>, <<"Z", "Z">>}
      [] p = 2 -> {<<"A", "B">>, <<>>}
      [] p = 3 -> {<<"0", "1">>, <<"Z", "Z">>}
      [] p = 4 -> {<<"A", "B">>}
      [] p = 5 -> {<<"X", "X">>}
      [] p = 6 -> {<<" ", " ">>}
      [] p = 7 -> {<<"X", "X">>}
      [] p = 8 -> {<<>>}
      [] p = 9 -> {<<"2", "4", "0", "2", "3", "0">>, <<"2", "4", "1", "1", "5">>, <<"2", "4", "0", "7", "1", "8", "9">>}
      [] p = 10 -> {<<"9", "9", "9", "9">>, <<"9", "3", "0">>}
      [] p = 11 -> {<<"X">>}
      [] p = 12 -> {<<"0", "0", "5", "0", " ">>}
      [] p = 13 -> {<<"0", "0", "0", "0", "0", "0", "0", "1">>, <<"0", "0", "0", "0", "0", "0", "0", "0", "2">>}
      [] p = 14 -> {<<"2">>}
      [] p = 15 -> {<<"X">>}

IsaPositions == 1..15

Deviations ==
    UNION {{f \in [P -> UNION {IsaAlternatives(p) : p \in P}] :
               \A p \in P : f[p] \in IsaAlternatives(p)} :
           P \in {Q \in SUBSET IsaPositions : Cardinality(Q) <= MaxDeviations}}

Deviating(f) ==
    [p \in 1..Len(CompliantIsa) |-> IF p \in DOMAIN f THEN f[p] ELSE CompliantIsa[p]]

IeaForms ==
    {CompliantIea,
     <<<<"2">>, CompliantIea[2]>>,
     <<<<"X">>, CompliantIea[2]>>,
     <<<<"1">>, <<"0", "0", "0", "0", "0", "0", "0", "0", "9">>>>,
     <<<<"1">>>>,
     <<>>}

EmptyGroup ==
    [header |-> DummySegment("GS"), trailer |-> DummySegment("GE"), transactions |-> <<>>,
     errors |-> <<>>]

ParsedEnvelope(isa_elements, iea_elements, gs_count) ==
    CdmInterchange(CdmSegment("ISA", isa_elements, 1),
                   CdmSegment("IEA", iea_elements, 2 + 2 * gs_count),
                   [k \in 1..gs_count |-> EmptyGroup], <<>>)

\* A raw input: lead, then head, the element separator at offset 3 of the stripped
\* text, fill characters up to offset 103, the component separator, the segment
\* terminator, and the text after the ISA segment
RawInput(lead, head, element_sep, fill, component_sep, segment_term) ==
    lead \o head \o <<element_sep>> \o [k \in 1..fill |-> "0"]
         \o <<component_sep, segment_term>> \o <<"I", "E", "A">>

RawForms ==
    {RawInput(lead, head, e, fill, c, t) :
        lead \in {<<>>, <<" ">>}, head \in {<<"I", "S", "A">>, <<"Z", "Z", "Z">>},
        e \in {"*", "A", "LF"}, fill \in {100, 40}, c \in {":", "B"},
        t \in {"~", "A", "9", "CR", "LF"}}

CompliantRaw == RawInput(<<>>, <<"I", "S", "A">>, "*", 100, ":", "~")

\* Interchanges whose element checks find something, or raise: paired with every raw
\* form
SuspectEnvelopes ==
    {ParsedEnvelope(Deviating(5 :> <<"X", "X">>), CompliantIea, 1),
     ParsedEnvelope(Deviating(14 :> <<"2">>), <<<<"2">>, CompliantIea[2]>>, 1),
     ParsedEnvelope(SubSeq(CompliantIsa, 1, 1), CompliantIea, 1)}

EnvelopeInputs ==
    {[used |-> TRUE, interchange |-> ParsedEnvelope(CompliantIsa, CompliantIea, 1),
      raw_edi_string |-> raw] : raw \in RawForms}
    \cup {[used |-> TRUE, interchange |-> ParsedEnvelope(Deviating(f), iea, n),
           raw_edi_string |-> CompliantRaw] :
             f \in Deviations, iea \in IeaForms, n \in {1, 2}}
    \cup {[used |-> TRUE,
           interchange |-> ParsedEnvelope(SubSeq(CompliantIsa, 1, len), iea, 1),
           raw_edi_string |-> CompliantRaw] :
             len \in 0..Len(CompliantIsa), iea \in IeaForms}
    \cup {[used |-> TRUE, interchange |-> ic, raw_edi_string |-> raw] :
             ic \in SuspectEnvelopes, raw \in RawForms}

InitTA1 ==
    /\ env_in \in EnvelopeInputs
    /\ env_out = NoEnvelopeOutput
    /\ gen_in = NoGeneratorInput
    /\ gen_out = NoGeneratorOutput
    /\ edi_string = NoneVal
    /\ variant = NoVariant
    /\ manager = NoManager
    /\ validator = NoValidator
    /\ schema_id = "837"
    /\ delims \in DelimiterChoices
    /\ all_segments = <<>>
    /\ self_errors = <<>>
    /\ interchange = NoInterchange
    /\ outcome = "none"
    /\ calls = 0
    /\ first_view = NoInterchange
    /\ frame = IdleFrame
    /\ ret = NoReturn

\* validate_interchange_envelope(interchange, raw_edi_string)
ValidateEnvelope ==
    /\ env_in.used
    /\ env_out.state = "none"
    /\ \E r \in {validate_interchange_envelope(env_in.interchange, env_in.raw_edi_string)} :
          env_out' = [state |-> IF r.raised THEN "raised" ELSE "returned",
                      errors |-> IF r.raised THEN <<>> ELSE r.errors]
    /\ UNCHANGED <<schema_id, delims, all_segments, self_errors, interchange, outcome,
                   calls, first_view, frame, ret, env_in, gen_in, gen_out, edi_string,
                   variant, manager, validator>>

\* A second call that writes the stripped values back into the ISA elements it read
ValidateEnvelopeAgainStripping ==
    /\ env_in.used
    /\ env_out.state # "none"
    /\ calls = 0
    /\ calls' = 1
    /\ \E r \in {validate_interchange_envelope(env_in.interchange, env_in.raw_edi_string)} :
          env_out' = [state |-> IF r.raised THEN "raised" ELSE "returned",
                      errors |-> IF r.raised THEN <<>> ELSE r.errors]
    /\ env_in' = [env_in EXCEPT !.interchange.header.elements =
                     [k \in DOMAIN @ |-> Strip(@[k])]]
    /\ UNCHANGED <<schema_id, delims, all_segments, self_errors, interchange, outcome,
                   first_view, frame, ret, gen_in, gen_out, edi_string, variant, manager,
                   validator>>

\* A second validate_interchange_envelope(interchange, raw_edi_string) on the same
\* pair, as the first call left it
ValidateEnvelopeAgain ==
    /\ env_in.used
    /\ env_out.state # "none"
    /\ calls = 0
    /\ calls' = 1
    /\ \E r \in {validate_interchange_envelope(env_in.interchange, env_in.raw_edi_string)} :
          env_out' = [state |-> IF r.raised THEN "raised" ELSE "returned",
                      errors |-> IF r.raised THEN <<>> ELSE r.errors]
    /\ UNCHANGED <<schema_id, delims, all_segments, self_errors, interchange, outcome,
                   first_view, frame, ret, env_in, gen_in, gen_out, edi_string,
                   variant, manager, validator>>

NextTA1 == ValidateEnvelope \/ ValidateEnvelopeAgain

SpecTA1 == InitTA1 /\ [][NextTA1]_vars

-----------------------------------------------------------------------------
(* edi_parser.py: EdiParser.__init__ on a text, then parse().  The texts are   *)
(* the raw forms of the envelope validation: with the three delimiters at      *)
(* offsets 3, 104 and 105, or too short, or not starting with ISA.             *)

\* _detect_delimiters(edi_string) (an index of the model is the source's plus one)
_detect_delimiters(text) ==
    LET clean_edi == Strip(text)
    IN  IF StartsWithISA(clean_edi) /\ Len(clean_edi) >= 106
        THEN [element |-> clean_edi[4], segment |-> clean_edi[106],
              component |-> clean_edi[105]]
        ELSE [element |-> "*", segment |-> "~", component |-> ":"]

\* Lines 308-310 with every LF kept, whatever the segment terminator
edi_content_keeping_line_feeds(text, segment_terminator) ==
    LET stripped == Strip(text)
        marked == [i \in 1..Len(stripped) |->
                      IF stripped[i] # "CR" THEN stripped[i]
                      ELSE IF i < Len(stripped) /\ stripped[i + 1] = "LF" THEN "dropped"
                      ELSE "LF"]
    IN  SelectSeq(marked, LAMBDA c : c # "dropped")

\* Lines 308-310: the text trimmed, CRLF and CR turned into LF, and every LF removed
\* unless LF is the segment terminator
edi_content(text, segment_terminator) ==
    LET stripped == Strip(text)
        \* .replace('\r\n', '\n').replace('\r', '\n')
        marked == [i \in 1..Len(stripped) |->
                      IF stripped[i] # "CR" THEN stripped[i]
                      ELSE IF i < Len(stripped) /\ stripped[i + 1] = "LF" THEN "dropped"
                      ELSE "LF"]
        unified == SelectSeq(marked, LAMBDA c : c # "dropped")
    IN  IF segment_terminator # "LF"
        THEN SelectSeq(unified, LAMBDA c : c # "LF") ELSE unified

\* The segment ids the model tells apart; any other first field is "?"
SegmentIdOf(field) ==
    CASE field = <<"I", "S", "A">> -> "ISA"
      [] field = <<"I", "E", "A">> -> "IEA"
      [] field = <<"G", "S">> -> "GS"
      [] field = <<"G", "E">> -> "GE"
      [] field = <<"S", "T">> -> "ST"
      [] field = <<"S", "E">> -> "SE"
      [] field = <<"B", "H", "T">> -> "BHT"
      [] field = <<"Z", "Z", "Z">> -> "ZZZ"
      [] OTHER -> "?"

\* _segmentize(edi_string) with the delimiters detected: the CdmSegment of every
\* non-blank piece up to the first IEA, numbered by the position of its piece
_segmentize(text, element_delimiter, segment_terminator) ==
    LET raw_segments == Split(edi_content(text, segment_terminator), segment_terminator)
        parts(i) == Split(Strip(raw_segments[i]), element_delimiter)
        segment_id(i) == SegmentIdOf(parts(i)[1])
        kept == {i \in 1..Len(raw_segments) :
                    /\ Strip(raw_segments[i]) # <<>>
                    /\ \A j \in 1..(i - 1) :
                          Strip(raw_segments[j]) = <<>> \/ segment_id(j) # "IEA"}
        nth(k) == CHOOSE i \in kept : Cardinality({j \in kept : j < i}) = k - 1
    IN  [k \in 1..Cardinality(kept) |->
            CdmSegment(segment_id(nth(k)), Tail(parts(nth(k))), nth(k))]

Undetected == [element |-> "", segment |-> "", component |-> ""]

\* The texts a parser is constructed on: the raw forms, and texts of several segments
\* after a 106-character ISA segment, on one line or with a line feed after every
\* segment terminator
DecodeTexts ==
    LET segments(e) ==
            <<Join(<<<<"G", "S">>, <<"H", "P">>, <<"1", "2", "0", "0">>>>, e),
              Join(<<<<"S", "T">>, <<"8", "3", "7">>>>, e),
              Join(<<<<"S", "E">>, <<"1">>>>, e),
              Join(<<<<"G", "E">>, <<"1">>>>, e),
              Join(<<<<"I", "E", "A">>, <<"1">>>>, e),
              Join(<<<<"Z", "Z", "Z">>, <<"1">>>>, e)>>
        isa(e, t) == SubSeq(RawInput(<<>>, <<"I", "S", "A">>, e, 100, ":", t), 1, 106)
        line(e, t, k, gap) == segments(e)[k] \o <<t>> \o gap
    IN  RawForms \cup
        {isa(e, t) \o gap \o line(e, t, 1, gap) \o line(e, t, 2, gap) \o line(e, t, 3, gap)
            \o line(e, t, 4, gap) \o line(e, t, 5, gap) \o line(e, t, 6, gap) :
                e \in {"*"}, t \in {"~", "CR", "LF"}, gap \in {<<>>, <<"LF">>}}

\* The text with `ending` inserted after the characters at the given positions
Reformatted(text, positions, ending) ==
    LET w == 1 + Len(ending)
        slots == [k \in 1..(w * Len(text)) |->
                     IF (k - 1) % w = 0 THEN text[((k - 1) \div w) + 1]
                     ELSE IF (((k - 1) \div w) + 1) \in positions THEN ending[(k - 1) % w]
                     ELSE "dropped"]
    IN  SelectSeq(slots, LAMBDA c : c # "dropped")

\* The positions of the segment terminators beyond the first 106 characters of the
\* trimmed text
TerminatorsAfterIsa(text, segment_terminator) ==
    LET lead == Len(text) - Len(LStrip(text))
    IN  {i \in 1..Len(text) : text[i] = segment_terminator /\ i - lead >= 106}

\* Where the line endings are inserted: after every terminator, after one of them, or
\* after all but one
LineBreakChoices(terminators) ==
    ({terminators} \cup {{i} : i \in terminators} \cup {terminators \ {i} : i \in terminators})
        \ {{}}

LineEndings == {<<"LF">>, <<"CR", "LF">>, <<"CR">>}

InitDecode ==
    /\ edi_string \in {Some(raw) : raw \in DecodeTexts}
    /\ variant = NoVariant
    /\ manager = NoManager
    /\ validator = NoValidator
    /\ delims = Undetected
    /\ schema_id = "837"
    /\ all_segments = <<>>
    /\ self_errors = <<>>
    /\ interchange = NoInterchange
    /\ outcome = "none"
    /\ calls = 0
    /\ first_view = NoInterchange
    /\ frame = IdleFrame
    /\ ret = NoReturn
    /\ env_in = NoEnvelopeInput
    /\ env_out = NoEnvelopeOutput
    /\ gen_in = NoGeneratorInput
    /\ gen_out = NoGeneratorOutput

\* EdiParser(edi_string, schema)
Construct ==
    /\ edi_string.some
    /\ delims = Undetected
    /\ \E d \in {_detect_delimiters(edi_string.v)} :
          /\ delims' = d
          /\ all_segments' = _segmentize(edi_string.v, d.element, d.segment)
    /\ self_errors' = <<>>
    /\ UNCHANGED <<schema_id, interchange, outcome, calls, first_view, frame, ret, env_in,
                   env_out, gen_in, gen_out, edi_string, variant, manager, validator>>

\* EdiParser(reformatted, schema): a parser constructed on the same text with a line
\* ending inserted after some of its segment terminators
ConstructReformatted ==
    /\ edi_string.some
    /\ edi_string.v \in DecodeTexts
    /\ delims # Undetected
    /\ calls = 0
    /\ \E ending \in LineEndings :
          \E positions \in LineBreakChoices(TerminatorsAfterIsa(edi_string.v, delims.segment)) :
             \E text \in {Reformatted(edi_string.v, positions, ending)} :
                \E d \in {_detect_delimiters(text)} :
                   /\ edi_string' = Some(text)
                   /\ delims' = d
                   /\ all_segments' = _segmentize(text, d.element, d.segment)
    /\ self_errors' = <<>>
    /\ UNCHANGED <<schema_id, interchange, outcome, calls, first_view, frame, ret, env_in,
                   env_out, gen_in, gen_out, variant, manager, validator>>

\* parser.parse() on the parser constructed
ParseConstructed == delims # Undetected /\ Parse

SpecDecode == InitDecode /\ [][Construct \/ ConstructReformatted \/ ParseConstructed]_vars

-----------------------------------------------------------------------------
(* ta1_generator.py: TA1Generator.generate.  The text returned is a sequence   *)
(* of characters; the clock generate reads is an argument of the model.        *)

\* str.zfill(width): zeros on the left, after a leading sign
ZFill(s, width) ==
    LET zeros == [k \in 1..(width - Len(s)) |-> "0"]
    IN  IF Len(s) >= width THEN s
        ELSE IF Len(s) > 0 /\ s[1] \in {"+", "-"} THEN <<s[1]>> \o zeros \o Tail(s)
        ELSE zeros \o s

\* TA1NoteCode(...).value and TA1AcknowledgementCode(...).value: the characters of the code
CodeValue(code) ==
    CASE code = "000" -> <<"0", "0", "0">>
      [] code = "001" -> <<"0", "0", "1">>
      [] code = "020" -> <<"0", "2", "0">>
      [] code = "022" -> <<"0", "2", "2">>
      [] code = "A" -> <<"A">>
      [] code = "R" -> <<"R">>

\* The note code taken from the last error of the list
NoteCodeOfLastError(errors) == IF errors # <<>> THEN errors[Len(errors)] ELSE "000"

\* Lines 54-59: NO_ERROR for an empty list, else the note code of errors[0]
NoteCode(errors) == IF errors # <<>> THEN errors[1] ELSE "000"

\* generate(isa_header, errors, force_generation) with datetime.now() = now:
\* None, or the text of the acknowledgement interchange
generate(isa_header, errors, force_generation, now) ==
    IF ~isa_header.some \/ Len(isa_header.v.elements) < 16 THEN NoneVal
    ELSE
    LET e(n) == get_element(isa_header.v, n).v
        \* strftime of one of %y, %m, %d, %H, %M: two decimal digits
        digit(d) == CHOOSE c \in DecimalChars : DigitVal(c) = d
        TwoDigits(n) == <<digit((n \div 10) % 10), digit(n % 10)>>
        or(x, d) == IF x = <<>> THEN d ELSE x
        spaces(n) == [k \in 1..n |-> " "]
        ack_requested == e(14) # <<>> /\ Strip(e(14)) = <<"1">>
        has_errors == errors # <<>>
        ack_code == IF has_errors THEN "R" ELSE "A"
        note_code == NoteCode(errors)
        original_icn == ZFill(Strip(e(13)), 9)
        ta1_date == IF Len(e(9)) = 8 THEN SubSeq(e(9), 3, 8) ELSE e(9)
        ta1_time == e(10)
        response_date == TwoDigits(now.year) \o TwoDigits(now.month) \o TwoDigits(now.day)
        response_time == TwoDigits(now.hour) \o TwoDigits(now.minute)
        response_icn == ZFill(response_date \o response_time, 9)
        ta1_segment ==
            Join(<<<<"T", "A", "1">>, original_icn, ta1_date, ta1_time,
                   CodeValue(ack_code), CodeValue(note_code)>>, "*")
        isa_response ==
            Join(<<<<"I", "S", "A">>,
                   or(e(1), <<"0", "0">>), or(e(2), spaces(10)),
                   or(e(3), <<"0", "0">>), or(e(4), spaces(10)),
                   or(e(7), <<"Z", "Z">>), or(e(8), spaces(15)),
                   or(e(5), <<"Z", "Z">>), or(e(6), spaces(15)),
                   response_date, response_time, or(e(11), <<"^">>),
                   or(e(12), <<"0", "0", "5", "0", "1">>), response_icn, <<"0">>,
                   or(e(15), <<"P">>), or(e(16), <<">">>)>>, "*") \o <<"~">>
        iea_response == Join(<<<<"I", "E", "A">>, <<"1">>, response_icn>>, "*") \o <<"~">>
    IN  IF ~has_errors /\ ~ack_requested /\ ~force_generation THEN NoneVal
        ELSE Some(isa_response \o ta1_segment \o <<"~">> \o iea_response)

-----------------------------------------------------------------------------
(* TA1Generator.generate called on an ISA header, an error list and a clock.   *)
(* The header deviates from the compliant one in at most MaxDeviations         *)
(* elements, is cut short, or is None.                                         *)

\* Other values of ISA element p, as the decoder can produce them
IsaVariants(p) ==
    CASE p = 1 -> {<<>>}
      [] p = 5 -> {<<>>, <<"0", "1">>}
      [] p = 6 -> {<<>>, <<"A", "*">>}
      [] p = 7 -> {<<>>, <<"3", "0">>}
      [] p = 8 -> {<<>>, <<"E", "D">>}
      [] p = 9 -> {<<"2", "0", "2", "4", "0", "7", "1", "8">>}
      [] p = 13 -> {<<" ", "1", "2", " ">>}
      [] p = 14 -> {<<"1">>, <<" ", "1">>, <<>>}
      [] p = 16 -> {<<">">>, <<>>}

GeneratorInputs ==
    LET changes ==
            UNION {{f \in [P -> UNION {IsaVariants(p) : p \in P}] :
                       \A p \in P : f[p] \in IsaVariants(p)} :
                   P \in {Q \in SUBSET {1, 5, 6, 7, 8, 9, 13, 14, 16} :
                            Cardinality(Q) <= MaxDeviations}}
        headers ==
            {Some(CdmSegment("ISA", Deviating(f), 1)) : f \in changes}
            \cup {Some(CdmSegment("ISA", SubSeq(CompliantIsa, 1, len), 1)) : len \in {0, 15}}
            \cup {NoneVal}
        ErrorLists == {<<>>, <<"001">>, <<"020", "001">>, <<"022", "020">>}
        Clocks ==
            {[year |-> 26, month |-> 11, day |-> 6, hour |-> 9, minute |-> 5],
             [year |-> 5, month |-> 1, day |-> 2, hour |-> 23, minute |-> 59]}
    IN  {[used |-> TRUE, isa_header |-> h, errors |-> errs, force_generation |-> force,
          now |-> now] :
            h \in headers, errs \in ErrorLists, force \in BOOLEAN, now \in Clocks}

InitGen ==
    /\ gen_in \in GeneratorInputs
    /\ gen_out = NoGeneratorOutput
    /\ edi_string = NoneVal
    /\ variant = NoVariant
    /\ manager = NoManager
    /\ validator = NoValidator
    /\ schema_id = "837"
    /\ delims \in DelimiterChoices
    /\ all_segments = <<>>
    /\ self_errors = <<>>
    /\ interchange = NoInterchange
    /\ outcome = "none"
    /\ calls = 0
    /\ first_view = NoInterchange
    /\ frame = IdleFrame
    /\ ret = NoReturn
    /\ env_in = NoEnvelopeInput
    /\ env_out = NoEnvelopeOutput

\* TA1Generator().generate(isa_header, errors, force_generation)
Generate ==
    /\ gen_in.used
    /\ gen_out.state = "none"
    /\ \E r \in {generate(gen_in.isa_header, gen_in.errors, gen_in.force_generation,
                         gen_in.now)} :
          gen_out' = [state |-> IF r.some THEN "text" ELSE "nothing", text |-> r.v]
    /\ UNCHANGED <<schema_id, delims, all_segments, self_errors, interchange, outcome,
                   calls, first_view, frame, ret, env_in, env_out, gen_in, edi_string,
                   variant, manager, validator>>

SpecGen == InitGen /\ [][Generate]_vars

-----------------------------------------------------------------------------
(* schema_manager.py: SchemaManager.  A file holds a schema (named by its      *)
(* description), text that does not load ("malformed"), or is absent; a path   *)
(* is the sequence of its components below schema_base_path.  The dicts        *)
(* _base_schemas and _tenant_schemas_cache are functions on the keys they hold.*)

SchemaNames == {<<"x.json">>}
TenantIds == {<<"a">>, <<"b">>}
LoadableSchemas == {"S1", "S2"}
FileContents == {"absent", "malformed"} \cup LoadableSchemas

\* f"{tenant_id}/{schema_name}"
CacheKey(tenant_id, schema_name) == tenant_id \o <<"/">> \o schema_name

\* schema_base_path / "tenant-specific" / tenant_id / schema_name
TenantSchemaPath(tenant_id, schema_name) ==
    <<"tenant-specific", "/">> \o tenant_id \o <<"/">> \o schema_name

SchemaPaths ==
    SchemaNames \cup {TenantSchemaPath(t, n) : t \in TenantIds, n \in SchemaNames}

EmptyDict == [k \in {} |-> NoneStr]

\* dict[key] = value
DictSet(dict, key, value) ==
    [k \in DOMAIN dict \cup {key} |-> IF k = key THEN value ELSE dict[k]]

\* _load_base_schemas(): every *.json file of the base directory that loads is put
\* into _base_schemas under its file name
_load_base_schemas(files, _base_schemas) ==
    [n \in DOMAIN _base_schemas \cup {m \in SchemaNames : files[m] \in LoadableSchemas} |->
        IF files[n] \in LoadableSchemas THEN files[n] ELSE _base_schemas[n]]

\* get_schema that reads the tenant file on every call
get_schema_rereading(m, schema_name, tenant_id) ==
    LET tenant_schema_path == TenantSchemaPath(tenant_id, schema_name)
    IN  IF m.files[tenant_schema_path] \in LoadableSchemas
        THEN [result |-> m.files[tenant_schema_path],
              cache |-> DictSet(m._tenant_schemas_cache, CacheKey(tenant_id, schema_name),
                                m.files[tenant_schema_path])]
        ELSE IF schema_name \in DOMAIN m._base_schemas
        THEN [result |-> m._base_schemas[schema_name], cache |-> m._tenant_schemas_cache]
        ELSE [result |-> NoneStr, cache |-> m._tenant_schemas_cache]

\* get_schema(schema_name, tenant_id): [result, cache], the schema returned (NoneStr for
\* None) and _tenant_schemas_cache afterwards
get_schema(m, schema_name, tenant_id) ==
    LET cache_key == CacheKey(tenant_id, schema_name)
        tenant_schema_path == TenantSchemaPath(tenant_id, schema_name)
    IN  IF cache_key \in DOMAIN m._tenant_schemas_cache
        THEN [result |-> m._tenant_schemas_cache[cache_key],
              cache |-> m._tenant_schemas_cache]
        ELSE IF m.files[tenant_schema_path] \in LoadableSchemas
        THEN [result |-> m.files[tenant_schema_path],
              cache |-> DictSet(m._tenant_schemas_cache, cache_key,
                                m.files[tenant_schema_path])]
        ELSE IF schema_name \in DOMAIN m._base_schemas
        THEN [result |-> m._base_schemas[schema_name], cache |-> m._tenant_schemas_cache]
        ELSE [result |-> NoneStr, cache |-> m._tenant_schemas_cache]

NoLookup == [schema_name |-> <<>>, tenant_id |-> <<>>, result |-> NoneStr]

\* SchemaManager(schema_base_path) on a directory of schema files
InitSchemas ==
    /\ \E files \in [SchemaPaths -> FileContents] :
          manager = [used |-> TRUE, files |-> files,
                     _base_schemas |-> _load_base_schemas(files, EmptyDict),
                     _tenant_schemas_cache |-> EmptyDict,
                     last |-> NoLookup]
    /\ variant = NoVariant
    /\ validator = NoValidator
    /\ edi_string = NoneVal
    /\ schema_id = "837"
    /\ delims \in DelimiterChoices
    /\ all_segments = <<>>
    /\ self_errors = <<>>
    /\ interchange = NoInterchange
    /\ outcome = "none"
    /\ calls = 0
    /\ first_view = NoInterchange
    /\ frame = IdleFrame
    /\ ret = NoReturn
    /\ env_in = NoEnvelopeInput
    /\ env_out = NoEnvelopeOutput
    /\ gen_in = NoGeneratorInput
    /\ gen_out = NoGeneratorOutput

UnchangedButManager ==
    UNCHANGED <<schema_id, delims, all_segments, self_errors, interchange, outcome, calls,
                first_view, frame, ret, env_in, env_out, gen_in, gen_out, edi_string,
                variant, validator>>

\* manager.get_schema(schema_name, tenant_id)
GetSchema ==
    /\ manager.used
    /\ \E schema_name \in SchemaNames, tenant_id \in TenantIds :
          \E r \in {get_schema(manager, schema_name, tenant_id)} :
             manager' = [manager EXCEPT
                            !._tenant_schemas_cache = r.cache,
                            !.last = [schema_name |-> schema_name, tenant_id |-> tenant_id,
                                      result |-> r.result]]
    /\ UnchangedButManager

\* manager.reload_schemas()
ReloadSchemas ==
    /\ manager.used
    /\ manager' = [manager EXCEPT
                      !._base_schemas = _load_base_schemas(manager.files, EmptyDict),
                      !._tenant_schemas_cache = EmptyDict]
    /\ UnchangedButManager

\* A schema file is deleted (Path.unlink)
Unlink ==
    /\ manager.used
    /\ \E path \in SchemaPaths :
          /\ manager.files[path] # "absent"
          /\ manager' = [manager EXCEPT !.files[path] = "absent"]
    /\ UnchangedButManager

\* A schema file is written (Path.write_text)
WriteText ==
    /\ manager.used
    /\ \E path \in SchemaPaths, content \in FileContents \ {"absent"} :
          /\ manager.files[path] # content
          /\ manager' = [manager EXCEPT !.files[path] = content]
    /\ UnchangedButManager

NextSchemas == GetSchema \/ ReloadSchemas \/ Unlink \/ WriteText

SpecSchemas == InitSchemas /\ [][NextSchemas]_vars

-----------------------------------------------------------------------------
(* SegmentValidator: syntax rules evaluated on one segment (SpecRules) *)

\* The segment ids the rules are evaluated on, as the characters of the id, and the
\* number of elements the segment carries
RuleSegmentIds == {"NM1", "SV1", "N4", "REF"}
SegmentIdChars == [NM1 |-> <<"N", "M", "1">>, SV1 |-> <<"S", "V", "1">>,
                   N4 |-> <<"N", "4">>, REF |-> <<"R", "E", "F">>]
ElementCount == [NM1 |-> 8, SV1 |-> 2, N4 |-> 3, REF |-> 2]
RuleValues == {<<>>, <<"A">>}

DecimalChar(d) == CHOOSE c \in DecimalChars : DigitVal(c) = d

\* The xid of the element at sequence seq of a segment: f"{segment_id}{seq:02d}"
ElementRef(segment_id, seq) ==
    SegmentIdChars[segment_id] \o <<DecimalChar(seq \div 10), DecimalChar(seq % 10)>>

ConditionOperators == {"IS_PRESENT", "IS_NOT_PRESENT", "IS", "IS_NOT"}
AssertionTypes == {"MUST_BE_PRESENT", "MUST_HAVE_LENGTH", "ANY_OF_MUST_BE_PRESENT"}

\* SegmentValidator(schema, component_separator) and a segment to evaluate rules on
InitRules ==
    /\ \E segment_id \in RuleSegmentIds :
          \E elements \in [1..ElementCount[segment_id] -> RuleValues] :
             validator = [used |-> TRUE, done |-> FALSE,
                          segment |-> CdmSegment(segment_id, elements, 1)]
    /\ variant = NoVariant
    /\ manager = NoManager
    /\ edi_string = NoneVal
    /\ schema_id = "837"
    /\ delims \in DelimiterChoices
    /\ all_segments = <<>>
    /\ self_errors = <<>>
    /\ interchange = NoInterchange
    /\ outcome = "none"
    /\ calls = 0
    /\ first_view = NoInterchange
    /\ frame = IdleFrame
    /\ ret = NoReturn
    /\ env_in = NoEnvelopeInput
    /\ env_out = NoEnvelopeOutput
    /\ gen_in = NoGeneratorInput
    /\ gen_out = NoGeneratorOutput

UnchangedButValidator ==
    UNCHANGED <<schema_id, delims, all_segments, self_errors, interchange, outcome, calls,
                first_view, frame, ret, env_in, env_out, gen_in, gen_out, edi_string,
                variant, manager>>

\* validator._evaluate_condition_clause(segment, clause), the clause naming one element
EvaluateConditionClause ==
    /\ validator.used
    /\ ~validator.done
    /\ \E seq \in 1..Len(validator.segment.elements), op \in ConditionOperators :
          \E clause \in {[element |-> ElementRef(validator.segment.segment_id, seq),
                          operator |-> op, value |-> Some(<<"A">>)]} :
             \E r \in {_evaluate_condition_clause(validator.segment, clause)} :
                validator' = [used |-> TRUE, done |-> TRUE, segment |-> validator.segment,
                              call |-> "condition", seq |-> seq, kind |-> op,
                              raised |-> r.raised, result |-> r.result]
    /\ UnchangedButValidator

\* validator._execute_assertion(segment, assertion, rule_id), the assertion naming one
\* element; the result recorded is whether a finding came back
ExecuteAssertion ==
    /\ validator.used
    /\ ~validator.done
    /\ \E seq \in 1..Len(validator.segment.elements), t \in AssertionTypes :
          \E assertion \in {[assertion |-> t,
                             element |-> ElementRef(validator.segment.segment_id, seq),
                             elements |-> <<ElementRef(validator.segment.segment_id, seq)>>,
                             value |-> 1]} :
             \E r \in {_execute_assertion(validator.segment, assertion, "R1")} :
                validator' = [used |-> TRUE, done |-> TRUE, segment |-> validator.segment,
                              call |-> "assertion", seq |-> seq, kind |-> t,
                              raised |-> r.raised, result |-> r.errors # <<>>]
    /\ UnchangedButValidator

SpecRules == InitRules /\ [][EvaluateConditionClause \/ ExecuteAssertion]_vars

-----------------------------------------------------------------------------
(* _get_effective_definition on a base and a contextual definition (SpecMerge) *)

\* A base definition: a scalar element and a composite of two sub-elements
MergeBases ==
    {SegmentDefinition(
         <<Scalar("X01", "R", 1, "AN", min_length, 5, NoneStr, <<>>),
           BaseElement("X02", "S", 2, "Composite", NoneInt, NoneInt, NoneStr, <<>>,
               <<Scalar("1", "R", 1, "AN", 2, 5, NoneStr, <<>>),
                 Scalar("2", "S", 2, "AN", min_length, 5, NoneStr, <<>>)>>,
               FALSE)>>,
         <<>>) : min_length \in {NoneInt, 2}}

\* The fields a contextual definition gives for one element or sub-element; None is given
\* as a key with the value None
OverrideChoices ==
    {[usage |-> NoneStr], [usage |-> "S"], [minLength |-> NoneInt], [minLength |-> 3],
     [usage |-> "S", minLength |-> NoneInt]}

\* The dicts from some of the keys to overrides
DictsOver(keys, values) == UNION {[D -> values] : D \in (SUBSET keys) \ {{}}}

\* context_def["elements"]: overrides for X01, for X02 (also of its sub-elements), for both
ContextElementChoices ==
    LET scalar == {("X01" :> o) : o \in OverrideChoices}
        subs == {[sub_elements |-> d] : d \in DictsOver({"1", "2"}, OverrideChoices)}
        composite == {("X02" :> o) : o \in OverrideChoices \cup subs}
                        \cup {("X02" :> (o @@ d)) : o \in OverrideChoices, d \in subs}
    IN  scalar \cup composite \cup {a @@ b : a \in scalar, b \in composite}

InitMerge ==
    /\ \E base_def \in MergeBases :
          \E context_def \in {NoneVal} \cup {Some([elements |-> e]) : e \in ContextElementChoices} :
             validator = [used |-> TRUE, done |-> FALSE, base_def |-> base_def,
                          context_def |-> context_def]
    /\ variant = NoVariant
    /\ manager = NoManager
    /\ edi_string = NoneVal
    /\ schema_id = "837"
    /\ delims \in DelimiterChoices
    /\ all_segments = <<>>
    /\ self_errors = <<>>
    /\ interchange = NoInterchange
    /\ outcome = "none"
    /\ calls = 0
    /\ first_view = NoInterchange
    /\ frame = IdleFrame
    /\ ret = NoReturn
    /\ env_in = NoEnvelopeInput
    /\ env_out = NoEnvelopeOutput
    /\ gen_in = NoGeneratorInput
    /\ gen_out = NoGeneratorOutput

\* effective_def = _get_effective_definition(base_def, context_def).  The function writes
\* to copy.deepcopy(base_def) only, so base_def is afterwards what it was.
GetEffectiveDefinition ==
    /\ validator.used
    /\ ~validator.done
    /\ "base_def" \in DOMAIN validator
    /\ \E r \in {_get_effective_definition(validator.base_def, validator.context_def)} :
          validator' = [used |-> TRUE, done |-> TRUE, base_def |-> validator.base_def,
                        context_def |-> validator.context_def, effective_def |-> r,
                        base_before |-> validator.base_def]
    /\ UnchangedButValidator

SpecMerge == InitMerge /\ [][GetEffectiveDefinition]_vars

-----------------------------------------------------------------------------
(* edi_parser.py: _collect_all_errors.  An entry is the finding and the kind of thing it
   is listed under; the text of the label (loop path, raw segment) is not kept. *)

Listed(where, errors) == [k \in 1..Len(errors) |-> [where |-> where, error |-> errors[k]]]

RECURSIVE SegmentEntries(_, _)
SegmentEntries(segments, k) ==
    IF k > Len(segments) THEN <<>>
    ELSE Listed("Segment", segments[k].errors) \o SegmentEntries(segments, k + 1)

\* collect_loop_errors(loop, path): the loop's findings, those of its segments, then the
\* sub-loops by xid in insertion order
RECURSIVE collect_loop_errors(_)
RECURSIVE CollectInsts(_, _)
RECURSIVE CollectLoops(_, _)
collect_loop_errors(loop) ==
    Listed("Loop", loop.errors) \o SegmentEntries(loop.segments, 1) \o CollectLoops(loop.loops, 1)
CollectInsts(insts, k) ==
    IF k > Len(insts) THEN <<>>
    ELSE collect_loop_errors(insts[k]) \o CollectInsts(insts, k + 1)
CollectLoops(loops, k) ==
    IF k > Len(loops) THEN <<>>
    ELSE CollectInsts(loops[k].insts, 1) \o CollectLoops(loops, k + 1)

RECURSIVE CollectTransactions(_, _)
CollectTransactions(transactions, k) ==
    IF k > Len(transactions) THEN <<>>
    ELSE Listed("Transaction", transactions[k].errors)
             \o collect_loop_errors(transactions[k].body)
             \o CollectTransactions(transactions, k + 1)

RECURSIVE CollectGroups(_, _)
CollectGroups(groups, k) ==
    IF k > Len(groups) THEN <<>>
    ELSE Listed("Functional Group", groups[k].errors)
             \o CollectTransactions(groups[k].transactions, 1)
             \o CollectGroups(groups, k + 1)

_collect_all_errors(ic) ==
    Listed("Interchange", ic.errors) \o CollectGroups(ic.functional_groups, 1)

-----------------------------------------------------------------------------
(* Traversals of the document *)

\* The segments of a loop in pre-order: its direct segments, then its child loops as
\* stored in the loops map (by xid in insertion order, each list in order)
RECURSIVE Flatten(_)
RECURSIVE FlattenInsts(_, _)
RECURSIVE FlattenLoops(_, _)
Flatten(loop) == loop.segments \o FlattenLoops(loop.loops, 1)
FlattenInsts(insts, k) ==
    IF k > Len(insts) THEN <<>> ELSE Flatten(insts[k]) \o FlattenInsts(insts, k + 1)
FlattenLoops(loops, k) ==
    IF k > Len(loops) THEN <<>>
    ELSE FlattenInsts(loops[k].insts, 1) \o FlattenLoops(loops, k + 1)

RECURSIVE PreOrderTransactions(_, _)
PreOrderTransactions(transactions, k) ==
    IF k > Len(transactions) THEN <<>>
    ELSE <<transactions[k].header>> \o Flatten(transactions[k].body)
             \o <<transactions[k].trailer>> \o PreOrderTransactions(transactions, k + 1)

RECURSIVE PreOrderGroups(_, _)
PreOrderGroups(groups, k) ==
    IF k > Len(groups) THEN <<>>
    ELSE <<groups[k].header>> \o PreOrderTransactions(groups[k].transactions, 1)
             \o <<groups[k].trailer>> \o PreOrderGroups(groups, k + 1)

\* Header, functional groups, trailer
PreOrder(ic) == <<ic.header>> \o PreOrderGroups(ic.functional_groups, 1) \o <<ic.trailer>>

LineNumbers(segments) == {segments[k].line_number : k \in 1..Len(segments)}

\* The findings of the transactions of an interchange
TransactionFindings(ic) ==
    UNION {UNION {SeqRange(ic.functional_groups[g].transactions[t].errors) :
                     t \in 1..Len(ic.functional_groups[g].transactions)} :
           g \in 1..Len(ic.functional_groups)}

\* The lines a finding accounts for: the unparsed tail it names the first segment of; a
\* transaction that failed as a whole; everything from an unclosed GS or ST on
AccountedLines(ic, last_line) ==
    UNION {IF e.message.kind = "transaction_parsing_incomplete"
           THEN e.line_number..(e.line_number + e.message.n - 1)
           ELSE IF e.message.kind = "critical_parsing_error"
           THEN e.line_number..last_line
           ELSE {} : e \in TransactionFindings(ic)}
    \cup UNION {IF e.message.kind \in {"unclosed_functional_group",
                                       "unclosed_transaction_set"}
                THEN e.message.n..last_line ELSE {} : e \in SeqRange(ic.errors)}

\* The lines of a loop instance and of every loop nested in it are consecutive
RECURSIVE ConsecutiveLines(_)
ConsecutiveLines(loop) ==
    /\ LET lines == LineNumbers(Flatten(loop))
       IN  /\ Cardinality(lines) = Len(Flatten(loop))
           /\ \A a \in lines, b \in lines : \A c \in a..b : c \in lines
    /\ \A k \in 1..Len(loop.loops) :
          \A j \in 1..Len(loop.loops[k].insts) : ConsecutiveLines(loop.loops[k].insts[j])

\* The siblings that pass the three gates for the segment at the cursor
PassingSiblings(f) ==
    {i \in 1..Len(f.schema_nodes) :
        /\ f.usage_counts[i] < MaxRepeats(f.schema_nodes[i])
        /\ f.segments[f.cursor + 1].segment_id = _get_starting_segment_id(f.schema_nodes[i])
        /\ ~HasIdentifierError(validate(SchemaOf(schema_id), delims.component,
                                        f.segments[f.cursor + 1],
                                        TrialContext(f.schema_nodes[i])).errors)}

Earliest(S) == CHOOSE i \in S : \A j \in S : i <= j

RequiredMissingFinding(node, parent_loop_id) ==
    PlainError(Msg("required_child_missing", node.xid, node.name, parent_loop_id, NoneInt,
                   {}, <<>>, <<>>))

-----------------------------------------------------------------------------
(* The structural matcher (SpecMatch) *)

\* C1: in every iteration the node chosen is the earliest sibling whose usage count is
\* below its limit, whose starting segment id is the segment's and whose trial
\* validation has no identifier finding; when no sibling passes, no node is chosen and
\* the loop stops with the cursor and the loop under construction unchanged.
C1_EarliestPassingSibling ==
    [][BT_Iterate =>
          IF PassingSiblings(frame) = {}
          THEN /\ frame'.broke
               /\ frame'.best_match_idx = 0
               /\ frame'.cursor = frame.cursor
               /\ frame'.cdm_loop = frame.cdm_loop
               /\ ~InLoop(frame')
          ELSE /\ ~frame'.broke
               /\ frame'.best_match_idx = Earliest(PassingSiblings(frame))
               /\ frame'.usage_counts[frame'.best_match_idx]
                     = frame.usage_counts[frame'.best_match_idx] + 1
               /\ frame'.cursor >= frame.cursor]_vars

\* In loop 2000A an HL with level code 23 went to 2000C, the fifth sibling, after HL and
\* 2000B (same starting id) were rejected, and a REF went to the first of the two REF
\* siblings that both pass.
C1_Witness ==
    /\ frame.parent_loop_id = "2000A"
    /\ frame.best_match_idx = 5
    /\ frame.usage_counts = <<1, 1, 0, 0, 1>>

\* C2: the segments placed in the loop under construction, nested loops included, are
\* exactly the first `cursor` segments of the window, each once, and every nested loop
\* holds consecutive segments; what _build_tree returns as consumed is the cursor, so
\* an unmatched segment is the next one its caller tries, and it is not in the loop.
C2_UnmatchedSegmentStaysWithCaller ==
    /\ Len(Flatten(frame.cdm_loop)) = frame.cursor
    /\ LineNumbers(Flatten(frame.cdm_loop)) = 1..frame.cursor
    /\ ConsecutiveLines(frame.cdm_loop)
    /\ ret.returned =>
          /\ ret.consumed = frame.cursor
          /\ LineNumbers(Flatten(ret.loop)) = 1..ret.consumed
          /\ frame.broke =>
                /\ ret.consumed < Len(frame.segments)
                /\ frame.segments[ret.consumed + 1].line_number
                      \notin LineNumbers(Flatten(ret.loop))

\* Loop 2000A returned after HL*20, HL*22, ZZZ: the nested 2000B stopped at ZZZ, 2000A
\* tried ZZZ itself, found no sibling and returned 2.
C2_Witness ==
    /\ ret.returned
    /\ frame.broke
    /\ frame.parent_loop_id = "2000A"
    /\ ret.consumed = 2
    /\ Len(ret.loop.loops) = 1
    /\ Len(frame.segments) = 3

\* C3: the loop returned carries, for each required child, exactly one finding
\* "Required segment or loop <xid> (<name>) is missing from loop <parentXid>" if the
\* child's usage count is 0 and none if it is at least 1.
C3_RequiredMissingExactlyOnce ==
    (ret.returned /\ ~ret.raised) =>
        \A i \in 1..Len(frame.schema_nodes) :
            frame.schema_nodes[i].usage = "R" =>
                Count(ret.loop.errors,
                      RequiredMissingFinding(frame.schema_nodes[i], frame.parent_loop_id))
                    = IF frame.usage_counts[i] = 0 THEN 1 ELSE 0

\* A loop returned with one required child present and another one missing
C3_Witness ==
    /\ ret.returned
    /\ ~ret.raised
    /\ \E i, j \in 1..Len(frame.schema_nodes) :
          /\ frame.schema_nodes[i].usage = "R" /\ frame.usage_counts[i] = 0
          /\ frame.schema_nodes[j].usage = "R" /\ frame.usage_counts[j] >= 1

-----------------------------------------------------------------------------
(* parse() (Spec) *)

EnvelopeFound == interchange.header.line_number # 0

\* C4: every decoded segment is in the interchange returned (once), or is accounted for
\* by a finding: the unparsed tail of a transaction body named by its first segment,
\* a transaction that failed as a whole, or an unclosed GS or ST.
C4_NoSegmentDropped ==
    (outcome = "returned" /\ EnvelopeFound) =>
        /\ Cardinality(LineNumbers(PreOrder(interchange))) = Len(PreOrder(interchange))
        /\ \A i \in 1..Len(all_segments) :
              \/ i \in LineNumbers(PreOrder(interchange))
              \/ i \in AccountedLines(interchange, Len(all_segments))

\* C5: the pre-order traversal of the interchange returned visits the segments in the
\* order of the flat segment stream.
C5_PreOrderIsStreamOrder ==
    (outcome = "returned" /\ EnvelopeFound) =>
        \A i, j \in 1..Len(PreOrder(interchange)) :
            i < j => PreOrder(interchange)[i].line_number
                        < PreOrder(interchange)[j].line_number

\* C6: parse never raises; without ISA or IEA it returns the dummy interchange with the
\* 'ISA/IEA envelope not found.' finding and no functional groups; with a schema that
\* has no ST_LOOP every transaction carries 'Critical parsing error' and an empty body.
C6_ParseNeverRaises ==
    /\ outcome # "raised"
    /\ (outcome = "returned"
          /\ (_find_next_segment("ISA", all_segments, 0) = -1
                \/ ~\E k \in 1..Len(all_segments) : all_segments[k].segment_id = "IEA")) =>
          interchange = CdmInterchange(DummySegment("ISA"), DummySegment("IEA"), <<>>,
                                       <<EnvelopeNotFound>>)
    /\ (outcome = "returned" /\ schema_id = "no_st_loop") =>
          \A g \in 1..Len(interchange.functional_groups) :
              \A t \in 1..Len(interchange.functional_groups[g].transactions) :
                  LET tx == interchange.functional_groups[g].transactions[t]
                  IN  /\ tx.body = CdmLoop("ST_LOOP")
                      /\ Len(tx.errors) = 1
                      /\ tx.errors[1].message.kind = "critical_parsing_error"

\* C7: the second parse() on the same EdiParser returns what the first returned.
C7_SecondParseSameFindings ==
    (calls = 2 /\ outcome = "returned") => interchange = first_view

\* C18: an unclosed envelope pair stops the scan of its container only.  Within the
\* ISA/IEA window the functional groups returned are exactly the GS/GE pairs of the
\* stream (a GE closes the first GS since the previous GE), each holding exactly the
\* ST/SE pairs between its GS and GE; a GS after the last GE adds one 'Unclosed
\* functional group' finding to the interchange, an ST after the last SE of a group one
\* 'Unclosed transaction set' finding, each naming the line of that GS or ST.
C18_UnclosedPairStopsItsContainerOnly ==
    (outcome = "returned" /\ EnvelopeFound) =>
        LET Between(id, lo, hi) ==
                {i \in (lo + 1)..(hi - 1) : all_segments[i].segment_id = id}
            Least(S) == CHOOSE x \in S : \A y \in S : x <= y
            Greatest(S) == CHOOSE x \in S : \A y \in S : x >= y
            ClosedPairs(open, close, lo, hi) ==
                LET opens(c) ==
                        Between(open, Greatest({lo} \cup Between(close, lo, c)), c)
                IN  {<<Least(opens(c)), c>> :
                        c \in {x \in Between(close, lo, hi) : opens(x) # {}}}
            Unclosed(open, close, lo, hi) ==
                Between(open, Greatest({lo} \cup Between(close, lo, hi)), hi)
            finding(kind, line) ==
                PlainError(Msg(kind, NoneStr, NoneStr, NoneStr, line, {}, <<>>, <<>>))
            Lines(pairs) ==
                {<<pairs[k].header.line_number, pairs[k].trailer.line_number>> :
                    k \in 1..Len(pairs)}
            lo == interchange.header.line_number
            hi == interchange.trailer.line_number
            groups == interchange.functional_groups
        IN  /\ Lines(groups) = ClosedPairs("GS", "GE", lo, hi)
            /\ Len(groups) = Cardinality(ClosedPairs("GS", "GE", lo, hi))
            /\ Unclosed("GS", "GE", lo, hi) # {} =>
                  Count(interchange.errors,
                        finding("unclosed_functional_group",
                                Least(Unclosed("GS", "GE", lo, hi)))) = 1
            /\ \A k \in 1..Len(groups) :
                  LET gs == groups[k].header.line_number
                      ge == groups[k].trailer.line_number
                  IN  /\ Lines(groups[k].transactions) = ClosedPairs("ST", "SE", gs, ge)
                      /\ Len(groups[k].transactions)
                            = Cardinality(ClosedPairs("ST", "SE", gs, ge))
                      /\ Unclosed("ST", "SE", gs, ge) # {} =>
                            Count(interchange.errors,
                                  finding("unclosed_transaction_set",
                                          Least(Unclosed("ST", "SE", gs, ge)))) = 1

C18_Witness ==
    /\ outcome = "returned"
    /\ Len(interchange.functional_groups) = 2
    /\ Len(interchange.functional_groups[1].transactions) = 1
    /\ Len(interchange.functional_groups[2].transactions) = 1
    /\ Len(interchange.errors) = 2
    /\ interchange.errors[1].message.kind = "unclosed_transaction_set"
    /\ interchange.errors[2].message.kind = "unclosed_functional_group"

\* C19: in every transaction the matcher ran on, the segments placed in loops are the
\* first segments of the body; when some body segments remain the transaction carries
\* exactly one 'Transaction parsing incomplete' finding, with the number of remaining
\* segments and the segment id and line number of the first of them, and the remaining
\* segments are in no loop; when none remains it carries no such finding.
C19_IncompleteFindingNamesFirstUnparsed ==
    (outcome = "returned" /\ EnvelopeFound) =>
        \A g \in 1..Len(interchange.functional_groups) :
            \A t \in 1..Len(interchange.functional_groups[g].transactions) :
                LET tx == interchange.functional_groups[g].transactions[t]
                    body == (tx.header.line_number + 1)..(tx.trailer.line_number - 1)
                    placed == LineNumbers(Flatten(tx.body))
                    consumed == Len(Flatten(tx.body))
                    first == tx.header.line_number + consumed + 1
                    incomplete ==
                        SelectSeq(tx.errors,
                            LAMBDA e : e.message.kind = "transaction_parsing_incomplete")
                IN  (\A e \in SeqRange(tx.errors) :
                         e.message.kind # "critical_parsing_error") =>
                        /\ placed = (tx.header.line_number + 1)..(first - 1)
                        /\ placed \subseteq body
                        /\ placed # body =>
                              /\ Len(incomplete) = 1
                              /\ incomplete[1].line_number = first
                              /\ incomplete[1].segment_id = all_segments[first].segment_id
                              /\ incomplete[1].message.xid = all_segments[first].segment_id
                              /\ incomplete[1].message.n = Cardinality(body \ placed)
                        /\ placed = body => Len(incomplete) = 0

C19_Witness ==
    /\ outcome = "returned"
    /\ Len(interchange.functional_groups) = 1
    /\ Len(interchange.functional_groups[1].transactions) = 1
    /\ LET tx == interchange.functional_groups[1].transactions[1]
       IN  /\ Len(Flatten(tx.body)) = 1
           /\ \E e \in SeqRange(tx.errors) :
                 /\ e.message.kind = "transaction_parsing_incomplete"
                 /\ e.message.n = 2
                 /\ e.segment_id = "ZZZ"

-----------------------------------------------------------------------------
(* validate_interchange_envelope (SpecTA1) *)

SelfTestReached ==
    /\ StartsWithISA(Strip(env_in.raw_edi_string))
    /\ Len(Strip(env_in.raw_edi_string)) >= 106

SelfTestPassed ==
    /\ SelfTestReached
    /\ ~IsAlnumChar(Strip(env_in.raw_edi_string)[4])
    /\ Strip(env_in.raw_edi_string)[4] \notin {"CR", "LF"}
    /\ ~IsAlnumChar(Strip(env_in.raw_edi_string)[105])
    /\ ~IsAlnumChar(Strip(env_in.raw_edi_string)[106])
    /\ Strip(env_in.raw_edi_string)[106] \notin {"CR", "LF"}

\* C8: validate_interchange_envelope never raises, whatever the number of elements of
\* the ISA header and the IEA trailer.
C8_EnvelopeValidationNeverRaises == env_out.state # "raised"

\* The envelope checks of the specification, on an ISA of at least 15 elements and an
\* IEA of at least 2
EnvelopeCheckViolated(code, isa, iea, gs_count) ==
    LET e(n) == isa.elements[n]
        present(n) == Strip(e(n)) # <<>>
    IN  CASE code = "001" -> Strip(e(13)) # Strip(iea.elements[2])
          [] code = "005" -> Strip(e(5)) \notin IdQualifiers
          [] code = "006" -> ~present(6)
          [] code = "007" -> Strip(e(7)) \notin IdQualifiers
          [] code = "008" -> ~present(8)
          [] code = "010" -> Strip(e(1)) \notin {<<"0", "0">>, <<"0", "3">>}
          [] code = "011" -> present(2) # (Strip(e(1)) = <<"0", "3">>)
          [] code = "012" -> Strip(e(3)) \notin {<<"0", "0">>, <<"0", "1">>}
          [] code = "013" -> present(4) # (Strip(e(3)) = <<"0", "1">>)
          [] code = "014" -> ~StrptimeYYMMDD(Some(e(9)))
          [] code = "015" -> ~StrptimeHHMM(Some(e(10)))
          [] code = "016" -> e(11) # <<"^">>
          [] code = "017" -> ~(Len(e(12)) = 5 /\ IsDigitStr(e(12)))
          [] code = "018" -> ~(Len(Strip(e(13))) = 9 /\ IsDigitStr(Strip(e(13))))
          [] code = "019" -> e(14) \notin {<<"0">>, <<"1">>}
          [] code = "020" -> e(15) \notin {<<"T">>, <<"P">>}
          [] code = "021" -> \/ IntRaises(Strip(iea.elements[1]))
                             \/ IntOf(Strip(iea.elements[1])) # gs_count

EnvelopeCodes ==
    {"001", "005", "006", "007", "008", "010", "011", "012", "013", "014", "015", "016",
     "017", "018", "019", "020", "021"}

\* C9: when the delimiter self-test passes, the list returned holds a note code if and
\* only if the corresponding check is violated, each code at most once.
C9_CodeIffCheckViolated ==
    (env_out.state = "returned" /\ SelfTestPassed
       /\ Len(env_in.interchange.header.elements) >= 15
       /\ Len(env_in.interchange.trailer.elements) >= 2) =>
        /\ \A code \in EnvelopeCodes :
              code \in SeqRange(env_out.errors)
                 <=> EnvelopeCheckViolated(code, env_in.interchange.header,
                                           env_in.interchange.trailer,
                                           Len(env_in.interchange.functional_groups))
        /\ \A code \in SeqRange(env_out.errors) : Count(env_out.errors, code) = 1

\* C10: in the delimiter self-test a segment terminator that is alphanumeric, CR or LF
\* gives 004, an alphanumeric element separator 026, an alphanumeric component
\* separator 027.
C10_DelimiterCodes ==
    (env_out.state = "returned" /\ SelfTestReached) =>
        LET clean_edi == Strip(env_in.raw_edi_string)
        IN  /\ (IsAlnumChar(clean_edi[106]) \/ clean_edi[106] \in {"CR", "LF"})
                  => "004" \in SeqRange(env_out.errors)
            /\ IsAlnumChar(clean_edi[4]) => "026" \in SeqRange(env_out.errors)
            /\ IsAlnumChar(clean_edi[105]) => "027" \in SeqRange(env_out.errors)

\* C11: after a structural failure the envelope checks are suppressed: a raw input
\* that, trimmed, does not start with ISA or has fewer than 106 characters gives exactly
\* [022]; an invalid delimiter gives only codes among 026, 004 and 027, and the checks
\* on the ISA and IEA elements are not evaluated (so they neither add a code nor raise).
C11_ChecksSuppressedAfterStructuralFailure ==
    env_out.state # "none" =>
        /\ ~SelfTestReached =>
              env_out.state = "returned" /\ env_out.errors = <<"022">>
        /\ (SelfTestReached /\ ~SelfTestPassed) =>
              /\ env_out.state = "returned"
              /\ SeqRange(env_out.errors) \subseteq {"026", "004", "027"}

-----------------------------------------------------------------------------
(* TA1Generator.generate (SpecGen) *)

\* The segments of the text returned, each split into its elements
ResponseSegments ==
    LET segs == Split(gen_out.text, "~")
    IN  [k \in 1..Len(segs) |-> Split(segs[k], "*")]

\* Element n of the ISA header passed in (None when there is no such element)
InputIsa(n) ==
    IF gen_in.isa_header.some THEN get_element(gen_in.isa_header.v, n) ELSE NoneVal

\* C13: generate returns nothing if and only if the error list is empty, ISA14 is not
\* "1" and generation is not forced, for every ISA header; so an acknowledgement is
\* returned whenever there are errors or generation is forced.
C13_NothingIffSuppressed ==
    gen_out.state # "none" =>
        (gen_out.state = "nothing"
           <=> (gen_in.errors = <<>> /\ InputIsa(14) # Some(<<"1">>)
                  /\ ~gen_in.force_generation))

\* C14: in every acknowledgement the response ISA05 and ISA06 are the input's ISA07
\* and ISA08, and the response ISA07 and ISA08 are the input's ISA05 and ISA06.
C14_SenderReceiverSwapped ==
    gen_out.state = "text" =>
        LET isa == ResponseSegments[1]
        IN  /\ Len(isa) >= 9
            /\ Some(isa[6]) = InputIsa(7)
            /\ Some(isa[7]) = InputIsa(8)
            /\ Some(isa[8]) = InputIsa(5)
            /\ Some(isa[9]) = InputIsa(6)

C16_FixedDelimiters ==
    gen_out.state = "text" =>
        LET isa == ResponseSegments[1]
        IN  /\ gen_out.text[Len(gen_out.text)] = "~"
            /\ isa[1] = <<"I", "S", "A">>
            /\ Len(isa) >= 17
            /\ isa[Len(isa)] = <<">">>

\* C17: the control number of the response, in its ISA13 and in its IEA02, is a
\* string of exactly nine digits.
C17_ResponseIcnNineDigits ==
    gen_out.state = "text" =>
        LET isa == ResponseSegments[1]
            iea == ResponseSegments[3]
        IN  /\ Len(isa) >= 17 /\ Len(iea) = 3
            /\ iea[3] = isa[Len(isa) - 3]
            /\ Len(iea[3]) = 9
            /\ \A k \in 1..Len(iea[3]) : iea[3][k] \in DecimalChars

-----------------------------------------------------------------------------
(* EdiParser on a text (SpecDecode) *)

\* C20: when the trimmed text starts with ISA and has at least 106 characters, the
\* element separator, component separator and segment terminator are its characters at
\* offsets 3, 104 and 105; otherwise they are '*', ':' and '~', and the result of
\* parse() records a warning finding about the fallback.
C20_DelimitersDetectedOrFallbackRecorded ==
    (edi_string.some /\ delims # Undetected) =>
        LET clean_edi == Strip(edi_string.v)
            findings == SeqRange(interchange.errors) \cup SeqRange(self_errors)
                           \cup UNION {SeqRange(PreOrder(interchange)[k].errors) :
                                          k \in 1..Len(PreOrder(interchange))}
                           \cup TransactionFindings(interchange)
        IN  IF StartsWithISA(clean_edi) /\ Len(clean_edi) >= 106
            THEN /\ delims.element = clean_edi[4]
                 /\ delims.component = clean_edi[105]
                 /\ delims.segment = clean_edi[106]
            ELSE /\ delims = [element |-> "*", segment |-> "~", component |-> ":"]
                 /\ outcome = "returned" =>
                       \E e \in findings : e.message.kind = "default_delimiters_used"

\* C21: when the detected segment terminator is not the line feed, a parser constructed
\* on the same text with LF, CRLF or CR inserted after segment terminators beyond the
\* first 106 characters holds the same segments: the same ids and element values in
\* the same order, ending at the first IEA.
C21_LineBreaksAfterTerminatorsIgnored ==
    [][(edi_string.some /\ edi_string' # edi_string /\ delims.segment # "LF") =>
          /\ delims' = delims
          /\ Len(all_segments') = Len(all_segments)
          /\ \A k \in 1..Len(all_segments) :
                /\ all_segments'[k].segment_id = all_segments[k].segment_id
                /\ all_segments'[k].elements = all_segments[k].elements]_vars

\* A text of six segments ending with '~' was reformatted with carriage returns, and
\* the parser constructed on it holds ISA to IEA
C21_Witness ==
    /\ edi_string.some
    /\ edi_string.v \notin DecodeTexts
    /\ delims.segment = "~"
    /\ \E i \in 1..Len(edi_string.v) : edi_string.v[i] = "CR"
    /\ Len(all_segments) = 6
    /\ all_segments[6].segment_id = "IEA"

-----------------------------------------------------------------------------
(* Two parsers on inputs that differ in one element (SpecEdit) *)

\* Some effective definition of the segment marks the element at the position as an
\* identifier
MarkedIdentifier(schema, segment_id, position) ==
    /\ segment_id \in DOMAIN schema.segmentDefinitions
    /\ \E c \in DOMAIN schema.contextualDefinitions :
          LET effective_def == _get_effective_definition(
                                   schema.segmentDefinitions[segment_id],
                                   Some(schema.contextualDefinitions[c]))
          IN  \E i \in 1..Len(effective_def.elements) :
                 /\ effective_def.elements[i].seq = position
                 /\ effective_def.elements[i].is_identifier

\* The document without the element values and the findings of the segment at `line`
MaskSegment(segment, line) ==
    IF segment.line_number = line
    THEN [segment EXCEPT !.elements = <<>>, !.errors = <<>>] ELSE segment

RECURSIVE MaskLoop(_, _)
MaskLoop(loop, line) ==
    [loop_id |-> loop.loop_id,
     segments |-> [k \in 1..Len(loop.segments) |-> MaskSegment(loop.segments[k], line)],
     loops |-> [k \in 1..Len(loop.loops) |->
                   [xid |-> loop.loops[k].xid,
                    insts |-> [j \in 1..Len(loop.loops[k].insts) |->
                                  MaskLoop(loop.loops[k].insts[j], line)]]],
     errors |-> loop.errors]

MaskInterchange(ic, line) ==
    [header |-> MaskSegment(ic.header, line),
     trailer |-> MaskSegment(ic.trailer, line),
     errors |-> ic.errors,
     functional_groups |->
        [g \in 1..Len(ic.functional_groups) |->
            LET group == ic.functional_groups[g]
            IN  [header |-> MaskSegment(group.header, line),
                 trailer |-> MaskSegment(group.trailer, line),
                 errors |-> group.errors,
                 transactions |->
                    [t \in 1..Len(group.transactions) |->
                        LET tx == group.transactions[t]
                        IN  [header |-> MaskSegment(tx.header, line),
                             trailer |-> MaskSegment(tx.trailer, line),
                             errors |-> tx.errors,
                             body |-> MaskLoop(tx.body, line)]]]]]

\* C22: the loop structure depends only on segment ids and identifier elements.  For
\* two inputs that differ only in the value of an element that no effective definition
\* marks as an identifier, parse gives the same document (every segment in the same
\* loop at the same position, the same loops, counts and loop findings) but for the
\* element values and the findings of the changed segment.
C22_StructureIndependentOfOtherValues ==
    (variant.used /\ calls = 1
       /\ ~MarkedIdentifier(SchemaOf(schema_id), all_segments[variant.line].segment_id,
                            variant.position)) =>
        /\ variant.outcome = outcome
        /\ MaskInterchange(variant.interchange, variant.line)
              = MaskInterchange(interchange, variant.line)

-----------------------------------------------------------------------------
(* SchemaManager (SpecSchemas) *)

\* C23: get_schema(name, tenant) returns the schema cached for the tenant and name if
\* one was loaded since the last reload, else the tenant-specific schema when a file
\* that loads exists for the tenant (which is then cached), else the base schema
\* loaded under that name, else None; a cached schema stays as it is whatever happens
\* to the files, until reload_schemas, which empties the base map and the tenant cache
\* and loads the base schemas of the files then present.
C23_TenantSchemaCachedUntilReload ==
    [][/\ GetSchema =>
             LET name == manager'.last.schema_name
                 tenant == manager'.last.tenant_id
                 key == CacheKey(tenant, name)
                 file == manager.files[TenantSchemaPath(tenant, name)]
                 cached == key \in DOMAIN manager._tenant_schemas_cache
             IN  /\ manager'.last.result =
                       IF cached THEN manager._tenant_schemas_cache[key]
                       ELSE IF file \in LoadableSchemas THEN file
                       ELSE IF name \in DOMAIN manager._base_schemas
                            THEN manager._base_schemas[name]
                       ELSE NoneStr
                 /\ (~cached /\ file \in LoadableSchemas) =>
                       /\ key \in DOMAIN manager'._tenant_schemas_cache
                       /\ manager'._tenant_schemas_cache[key] = file
       /\ ~ReloadSchemas =>
             \A key \in DOMAIN manager._tenant_schemas_cache :
                 /\ key \in DOMAIN manager'._tenant_schemas_cache
                 /\ manager'._tenant_schemas_cache[key] = manager._tenant_schemas_cache[key]
       /\ ReloadSchemas =>
             /\ manager'._tenant_schemas_cache = EmptyDict
             /\ DOMAIN manager'._base_schemas
                   = {n \in SchemaNames : manager.files[n] \in LoadableSchemas}
             /\ \A n \in DOMAIN manager'._base_schemas :
                   manager'._base_schemas[n] = manager.files[n]]_vars

\* The last lookup, for tenant a, returned the schema cached for it; the tenant's file is
\* gone and the base map holds another schema under that name
C23_Witness ==
    /\ manager.used
    /\ manager.last.tenant_id = <<"a">>
    /\ manager.last.result = "S2"
    /\ CacheKey(<<"a">>, <<"x.json">>) \in DOMAIN manager._tenant_schemas_cache
    /\ manager.files[TenantSchemaPath(<<"a">>, <<"x.json">>)] = "absent"
    /\ <<"x.json">> \in DOMAIN manager._base_schemas
    /\ manager._base_schemas[<<"x.json">>] = "S1"

-----------------------------------------------------------------------------
(* The structural matcher on the loops of any shape (SpecMatch) *)

\* The repeat of a loop node is an integer, given as a number or as its digits
IntegerRepeat(node) == node.repeat.is_int \/ ~IntRaises(Strip(node.repeat.s))

\* The children of the loop node a loop instance was built from
RECURSIVE ChildrenOf(_, _)
ChildrenOf(nodes, loop_id) ==
    IF Len(nodes) = 0 THEN <<>>
    ELSE IF nodes[1].type = "loop" /\ nodes[1].xid = loop_id THEN nodes[1].children
    ELSE ChildrenOf(Tail(nodes), loop_id)

RECURSIVE SumOver(_, _)
SumOver(S, f) ==
    IF S = {} THEN 0 ELSE LET x == CHOOSE y \in S : TRUE IN f[x] + SumOver(S \ {x}, f)

\* In a loop built from the sibling list `nodes`, and in every loop nested in it, the
\* segments of an id are at most the max_use of the Segment nodes of that id together,
\* and the instances of a Loop node with an integer repeat are at most that repeat
RECURSIVE WithinLimits(_, _)
WithinLimits(loop, nodes) ==
    LET segment_nodes(id) ==
            {i \in 1..Len(nodes) : nodes[i].type = "segment" /\ nodes[i].xid = id}
        max_use == [i \in 1..Len(nodes) |->
                       IF nodes[i].type = "segment" THEN nodes[i].max_use ELSE 0]
    IN  /\ \A k \in 1..Len(loop.segments) :
              Cardinality({j \in 1..Len(loop.segments) :
                              loop.segments[j].segment_id = loop.segments[k].segment_id})
                 <= SumOver(segment_nodes(loop.segments[k].segment_id), max_use)
        /\ \A k \in 1..Len(loop.loops) :
              /\ \A i \in 1..Len(nodes) :
                    (nodes[i].type = "loop" /\ nodes[i].xid = loop.loops[k].xid
                       /\ IntegerRepeat(nodes[i])) =>
                        Len(loop.loops[k].insts) <= MaxRepeats(nodes[i])
              /\ \A j \in 1..Len(loop.loops[k].insts) :
                    WithinLimits(loop.loops[k].insts[j], ChildrenOf(nodes, loop.loops[k].xid))

-----------------------------------------------------------------------------
(* Syntax rules (SpecRules) *)

\* C25: in a condition or an assertion, a reference made of the segment id and the
\* element's two-digit sequence (NM108, SV101, N403, REF02) is evaluated against the
\* value the segment has at that sequence number, for every segment id: the condition
\* is true, and the assertion fails, exactly as that value decides.
C25_ReferenceReadsElementAtItsSequence ==
    (validator.used /\ validator.done) =>
        LET value == OrEmpty(get_element(validator.segment, validator.seq))
            k == validator.kind
        IN  /\ ~validator.raised
            /\ validator.result =
                  CASE k = "IS_PRESENT" -> Strip(value) # <<>>
                    [] k = "IS_NOT_PRESENT" -> Strip(value) = <<>>
                    [] k = "IS" -> value = <<"A">>
                    [] k = "IS_NOT" -> value # <<"A">>
                    [] k = "MUST_BE_PRESENT" -> Strip(value) = <<>>
                    [] k = "MUST_HAVE_LENGTH" -> Len(value) # 1
                    [] k = "ANY_OF_MUST_BE_PRESENT" -> value = <<>>

-----------------------------------------------------------------------------
(* Contextual overrides (SpecMerge) *)

\* The value the merge should leave in field key: the override's when it gives the key
\* a value that is not None, the base's otherwise
MergedField(base_el, has_overrides, overrides, key) ==
    IF has_overrides /\ key \in DOMAIN overrides /\ ~IsNone(key, overrides[key])
    THEN overrides[key] ELSE base_el[key]

\* C26: _get_effective_definition returns the elements of the base in their order;
\* each field of each element, and of each sub-element of a composite, is the
\* override's value when the contextual definition gives a value that is not None for
\* that field under that xid, and the base's value otherwise (so None never replaces
\* or removes a base field); without a contextual definition the result is the base;
\* and the base passed in is left unchanged.
C26_EffectiveDefinitionMergesNonNullOverrides ==
    (validator.used /\ validator.done) =>
        LET base == validator.base_before
            effective == validator.effective_def
            has_context == validator.context_def.some
            context_elements == validator.context_def.v.elements
        IN  /\ validator.base_def = base
            /\ ~has_context => effective = base
            /\ Len(effective.elements) = Len(base.elements)
            /\ \A i \in 1..Len(base.elements) :
                  LET base_el == base.elements[i]
                      el == effective.elements[i]
                      has_overrides == has_context /\ base_el.xid \in DOMAIN context_elements
                      overrides == context_elements[base_el.xid]
                      has_subs == has_overrides /\ "sub_elements" \in DOMAIN overrides
                  IN  /\ \A key \in (DOMAIN base_el) \ {"sub_elements"} :
                            el[key] = MergedField(base_el, has_overrides, overrides, key)
                      /\ Len(el.sub_elements) = Len(base_el.sub_elements)
                      /\ \A j \in 1..Len(base_el.sub_elements) :
                            LET base_sub == base_el.sub_elements[j]
                                given == has_subs /\ base_sub.xid \in DOMAIN overrides.sub_elements
                            IN  \A key \in DOMAIN base_sub :
                                   el.sub_elements[j][key]
                                      = MergedField(base_sub, given,
                                                    overrides.sub_elements[base_sub.xid], key)

-----------------------------------------------------------------------------
(* Findings on the way up (Spec) *)

\* A loop, the loops below it and their depths below `depth`, in pre-order
RECURSIVE LoopTree(_, _)
RECURSIVE LoopTreeInsts(_, _, _)
RECURSIVE LoopTreeLoops(_, _, _)
LoopTree(loop, depth) ==
    <<[loop |-> loop, depth |-> depth]>> \o LoopTreeLoops(loop.loops, 1, depth + 1)
LoopTreeInsts(insts, k, depth) ==
    IF k > Len(insts) THEN <<>>
    ELSE LoopTree(insts[k], depth) \o LoopTreeInsts(insts, k + 1, depth)
LoopTreeLoops(loops, k, depth) ==
    IF k > Len(loops) THEN <<>>
    ELSE LoopTreeInsts(loops[k].insts, 1, depth) \o LoopTreeLoops(loops, k + 1, depth)

\* The transactions of the document
RECURSIVE TransactionsOf(_, _)
TransactionsOf(groups, k) ==
    IF k > Len(groups) THEN <<>> ELSE groups[k].transactions \o TransactionsOf(groups, k + 1)

\* The loops of all transaction bodies, ST_LOOP at depth 0
RECURSIVE BodyLoops(_, _)
BodyLoops(transactions, k) ==
    IF k > Len(transactions) THEN <<>>
    ELSE LoopTree(transactions[k].body, 0) \o BodyLoops(transactions, k + 1)

\* Every finding of a child loop is a finding of the loop, at every level
RECURSIVE FindingsPropagated(_)
FindingsPropagated(loop) ==
    \A k \in 1..Len(loop.loops) : \A j \in 1..Len(loop.loops[k].insts) :
        /\ SeqRange(loop.loops[k].insts[j].errors) \subseteq SeqRange(loop.errors)
        /\ FindingsPropagated(loop.loops[k].insts[j])

RECURSIVE SumSeq(_, _)
SumSeq(f, k) == IF k > Len(f) THEN 0 ELSE f[k] + SumSeq(f, k + 1)

\* A required-missing finding raised on the loop itself
RaisedOn(entry, error) ==
    /\ error.message.kind = "required_child_missing"
    /\ error.message.loop = entry.loop.loop_id

\* C27: after parse every finding of a loop is a finding of each loop above it and every
\* finding of the ST_LOOP body is a finding of its transaction; so _collect_all_errors
\* lists a required-missing finding raised on a loop at depth d below ST_LOOP d + 2
\* times for each loop instance that raised it.
C27_FindingsPropagateUpward ==
    outcome = "returned" =>
        LET transactions == TransactionsOf(interchange.functional_groups, 1)
            loops == BodyLoops(transactions, 1)
            all_errors == _collect_all_errors(interchange)
            listed == [k \in 1..Len(all_errors) |-> all_errors[k].error]
        IN  /\ \A t \in 1..Len(transactions) :
                  /\ FindingsPropagated(transactions[t].body)
                  /\ SeqRange(transactions[t].body.errors) \subseteq SeqRange(transactions[t].errors)
            /\ \A x \in 1..Len(loops) : \A e \in 1..Len(loops[x].loop.errors) :
                  LET error == loops[x].loop.errors[e]
                  IN  RaisedOn(loops[x], error) =>
                          Count(listed, error) =
                              SumSeq([y \in 1..Len(loops) |->
                                         IF loops[y].loop.loop_id = loops[x].loop.loop_id
                                         THEN Count(loops[y].loop.errors, error)
                                                  * (loops[y].depth + 2)
                                         ELSE 0], 1)

\* A parse returned a 2000B loop, two levels below ST_LOOP, without its required CLM; the
\* finding is listed four times
C27_Witness ==
    /\ outcome = "returned"
    /\ LET loops == BodyLoops(TransactionsOf(interchange.functional_groups, 1), 1)
           all_errors == _collect_all_errors(interchange)
       IN  /\ Cardinality({x \in 1..Len(loops) : loops[x].loop.loop_id = "2000B"}) = 1
           /\ \E x \in 1..Len(loops) :
                 /\ loops[x].loop.loop_id = "2000B"
                 /\ loops[x].depth = 2
                 /\ \E e \in 1..Len(loops[x].loop.errors) :
                       /\ RaisedOn(loops[x], loops[x].loop.errors[e])
                       /\ Cardinality({k \in 1..Len(all_errors) :
                                          all_errors[k].error = loops[x].loop.errors[e]}) = 4

-----------------------------------------------------------------------------
(* Order in the loops the matcher builds (SpecMatch) *)

\* In the loop and in every loop below it: the direct segments are in input order, every
\* child-loop list has an instance, and the instances of a list are in input order (all
\* segments of an instance come before all segments of the next ones)
RECURSIVE InInputOrder(_)
InInputOrder(loop) ==
    /\ \A a, b \in 1..Len(loop.segments) :
          a < b => loop.segments[a].line_number < loop.segments[b].line_number
    /\ \A k \in 1..Len(loop.loops) :
          LET insts == loop.loops[k].insts
          IN  /\ Len(insts) >= 1
              /\ \A a, b \in 1..Len(insts) :
                    a < b => \A x \in LineNumbers(Flatten(insts[a])),
                                y \in LineNumbers(Flatten(insts[b])) : x < y
              /\ \A a \in 1..Len(insts) : InInputOrder(insts[a])

\* C28: the matcher never reorders segments.  The segments in the loop _build_tree
\* returns and in the loops below it are the first n segments of the window, n being the
\* count returned, each exactly once; every direct segment list and every child-loop
\* list is in the order of the input; and no child-loop list in a loop's map is empty.
C28_MatcherNeverReorders ==
    (ret.returned /\ ~ret.raised) =>
        LET stored == Flatten(ret.loop)
        IN  /\ Len(stored) = ret.consumed
            /\ \A n \in 1..ret.consumed :
                  /\ Cardinality({k \in 1..Len(stored) : stored[k].line_number = n}) = 1
                  /\ \E k \in 1..Len(stored) :
                        /\ stored[k].line_number = frame.segments[n].line_number
                        /\ stored[k].segment_id = frame.segments[n].segment_id
                        /\ stored[k].elements = frame.segments[n].elements
            /\ InInputOrder(ret.loop)

\* Loop 2000A returned with its own HL and two 2000B instances of one HL each
C28_Witness ==
    /\ ret.returned
    /\ ~ret.raised
    /\ frame.parent_loop_id = "2000A"
    /\ ret.consumed = 3
    /\ Len(ret.loop.segments) = 1
    /\ Len(ret.loop.loops) = 1
    /\ Len(ret.loop.loops[1].insts) = 2
    /\ \A j \in 1..2 : Len(ret.loop.loops[1].insts[j].segments) = 1

-----------------------------------------------------------------------------
(* Progress of the matcher (SpecMatch) *)

\* No loop below this one, at any depth, is without a segment of its own or below it
RECURSIVE NoEmptyInstance(_)
NoEmptyInstance(loop) ==
    \A k \in 1..Len(loop.loops) : \A j \in 1..Len(loop.loops[k].insts) :
        /\ Len(Flatten(loop.loops[k].insts[j])) >= 1
        /\ NoEmptyInstance(loop.loops[k].insts[j])

\* C29: the matcher always makes progress.  Whenever an iteration of _build_tree selects
\* a node for the segment at the cursor, the cursor is greater afterwards (a selected
\* Loop node's recursive call consumes at least one segment), and no loop instance
\* without any segment is ever added, whatever the sibling list: also one with a loop
\* whose first child is a loop, or whose first child has max_use 0.
C29_MatcherAlwaysMakesProgress ==
    [][(BT_Iterate /\ frame'.best_match_idx # 0 /\ ~frame'.raised) =>
          /\ frame'.cursor > frame.cursor
          /\ NoEmptyInstance(frame'.cdm_loop)]_vars

-----------------------------------------------------------------------------
(* What a placed segment carries (Spec) *)

\* The findings of one validation, once for each parse() call made on the parser: the
\* segment objects are kept between calls and parse() extends their findings lists
RECURSIVE OncePerCall(_, _)
OncePerCall(errors, n) == IF n = 0 THEN <<>> ELSE errors \o OncePerCall(errors, n - 1)

\* Every segment of the loop, and of the loops below it, carries the findings of one
\* validation under the context of a Segment node of its id among the children of the
\* loop's node, and no identifier finding
RECURSIVE CarriesOneValidation(_, _, _, _)
CarriesOneValidation(schema, component_separator, loop, nodes) ==
    /\ \A k \in 1..Len(loop.segments) :
          LET segment == loop.segments[k]
              as_decoded == [segment EXCEPT !.errors = <<>>]
          IN  /\ ~HasIdentifierError(segment.errors)
              /\ \E i \in 1..Len(nodes) :
                    /\ nodes[i].type = "segment"
                    /\ nodes[i].xid = segment.segment_id
                    /\ segment.errors =
                          OncePerCall(validate(schema, component_separator, as_decoded,
                                               nodes[i].contextDefinitionId).errors, calls)
    /\ \A k \in 1..Len(loop.loops) : \A j \in 1..Len(loop.loops[k].insts) :
          CarriesOneValidation(schema, component_separator, loop.loops[k].insts[j],
                               ChildrenOf(nodes, loop.loops[k].xid))

=============================================================================
